---- MODULE Spec2Model ----
(***************************************************************************)
(* A model of the pull-based query engine of Query_Processor: values,      *)
(* schemas, expression evaluation, the Scan / Select / Project / Limit /   *)
(* join operators and the open/next/close protocol that drives them.       *)
(*                                                                         *)
(* Text is modelled as sequences of one-character strings so that the      *)
(* CSV splitting and the stoi/stof conversions are computed, not assumed.  *)
(* A float is an exact fraction [n, d] (d > 0, lowest terms); rounding to  *)
(* single precision is not modelled, the data used keeps values exact.     *)
(* A C++ exception is the "err" field of an operation's result; the state  *)
(* the operation had reached when it threw is returned with it.            *)
(***************************************************************************)
EXTENDS Integers, Sequences, FiniteSets, Bags, TLC

VARIABLES
    plan,       \* the plan document the tree was translated from, if any
    files,      \* the data directory: file name -> its lines (header first)
    garbage,    \* what an out-of-bounds tuple read yields in this execution
    built,      \* the operator tree as constructed
    root,       \* the operator tree, in its current state
    phase,      \* "new", "open", "closed"; "openFailed" / "nextFailed" once a
                \* call has thrown; "crashed" once the process has died;
                \* "planFailed" when the translator has thrown
    lastCall,   \* the last call made on the root: "none", "open", "next", "close"
    lastRet,    \* what the last next() returned
    lastErr,    \* the exception the last call threw, or NoErr
    out,        \* the tuples next() has returned since the last open()
    sawEnd,     \* next() has returned false since the last open()
    pastEnd,    \* the last next() was called with sawEnd already true
    clean,      \* the last open() came first or directly after a close(),
                \* and no close() has followed it
    prev        \* how the run stood at the last close() of an open tree:
                \* "none", "unused", "partial", "ended"

vars == <<plan, files, garbage, built, root, phase, lastCall, lastRet, lastErr, out, sawEnd,
          pastEnd, clean, prev>>

-----------------------------------------------------------------------------
(* Bounds of the model *)

MaxRowsA == 2
MaxRowsB == 2
MaxBlock == 2
MaxLimit == 1

(* Program constants *)

IntMax == 2147483647
DefaultBlockSize == 100

-----------------------------------------------------------------------------
(* types.h: Value, Tuple *)

IntV(i) == [t |-> "int", v |-> i]
StrV(s) == [t |-> "string", v |-> s]
BoolV(b) == [t |-> "bool", v |-> b]

Abs(i) == IF i < 0 THEN 0 - i ELSE i

RECURSIVE Gcd(_, _)
Gcd(a, b) == IF b = 0 THEN a ELSE Gcd(b, a % b)

(* a float value n/d, kept in lowest terms with d > 0 so that equal floats *)
(* are equal records                                                       *)
FloatV(n, d) ==
    LET g == Gcd(Abs(n), Abs(d))
        s == IF d < 0 THEN 0 - 1 ELSE 1
    IN [t |-> "float", v |-> [n |-> (s * n) \div g, d |-> (s * d) \div g]]

NoErr == "none"

-----------------------------------------------------------------------------
(* types.h: Schema *)

EmptySchema == [schemaColumns |-> << >>, columnIndex |-> << >>]

addColumn(schema, name, type) ==
    LET idx == Len(schema.schemaColumns)
        dom == DOMAIN schema.columnIndex \cup {name}
    IN [schemaColumns |-> Append(schema.schemaColumns,
                                 [name |-> name, type |-> type, index |-> idx]),
        columnIndex |-> [n \in dom |-> IF n = name THEN idx ELSE schema.columnIndex[n]]]

hasColumn(schema, name) == name \in DOMAIN schema.columnIndex

(* Schema::getColumn; callers test hasColumn first, absence is an          *)
(* std::out_of_range thrown by unordered_map::at                           *)
getColumn(schema, name) == schema.schemaColumns[schema.columnIndex[name] + 1]

getColumns(schema) == schema.schemaColumns

RECURSIVE addColumns(_, _)
addColumns(schema, cols) ==
    IF cols = << >> THEN schema
    ELSE addColumns(addColumn(schema, Head(cols).name, Head(cols).type), Tail(cols))

(* a merge that lists the right columns first *)
merge_RightFirst(left, right) == addColumns(right, getColumns(left))

merge(left, right) == addColumns(left, getColumns(right))

-----------------------------------------------------------------------------
(* Text conversions used by ScanOperator::next *)

Digit == [c \in {"0", "1", "2", "3", "4", "5", "6", "7", "8", "9"} |->
            CASE c = "0" -> 0 [] c = "1" -> 1 [] c = "2" -> 2 [] c = "3" -> 3
              [] c = "4" -> 4 [] c = "5" -> 5 [] c = "6" -> 6 [] c = "7" -> 7
              [] c = "8" -> 8 [] c = "9" -> 9]

IsDigit(c) == c \in DOMAIN Digit

RECURSIVE SkipSpace(_)
SkipSpace(s) == IF s # << >> /\ Head(s) = " " THEN SkipSpace(Tail(s)) ELSE s

(* the digits at the front of s, as an accumulated value; ovf is set once  *)
(* the value no longer fits in a 32-bit int                                *)
RECURSIVE TakeDigits(_, _)
TakeDigits(s, acc) ==
    IF s = << >> \/ ~IsDigit(Head(s)) THEN [val |-> acc.val, cnt |-> acc.cnt, pow |-> acc.pow, ovf |-> acc.ovf, rest |-> s]
    ELSE LET dv == Digit[Head(s)]
         IN IF acc.ovf \/ acc.val > (IntMax - dv) \div 10
            THEN TakeDigits(Tail(s), [val |-> acc.val, cnt |-> acc.cnt + 1,
                                      pow |-> acc.pow, ovf |-> TRUE])
            ELSE TakeDigits(Tail(s), [val |-> acc.val * 10 + dv, cnt |-> acc.cnt + 1,
                                      pow |-> IF acc.pow > IntMax \div 10 THEN acc.pow
                                              ELSE acc.pow * 10,
                                      ovf |-> FALSE])

TakeDigits0(s) == TakeDigits(s, [val |-> 0, cnt |-> 0, pow |-> 1, ovf |-> FALSE])

(* std::stoi *)
stoi(field) ==
    LET s0 == SkipSpace(field)
        neg == s0 # << >> /\ Head(s0) = "-"
        s1 == IF s0 # << >> /\ Head(s0) \in {"-", "+"} THEN Tail(s0) ELSE s0
        d == TakeDigits0(s1)
    IN IF d.cnt = 0 THEN [err |-> "invalid_argument", val |-> IntV(0)]
       ELSE IF d.ovf THEN [err |-> "out_of_range", val |-> IntV(0)]
       ELSE [err |-> NoErr, val |-> IntV(IF neg THEN 0 - d.val ELSE d.val)]

(* std::stof, for decimal text: sign, digits, optional '.', digits *)
stof(field) ==
    LET s0 == SkipSpace(field)
        neg == s0 # << >> /\ Head(s0) = "-"
        s1 == IF s0 # << >> /\ Head(s0) \in {"-", "+"} THEN Tail(s0) ELSE s0
        ip == TakeDigits0(s1)
        hasDot == ip.rest # << >> /\ Head(ip.rest) = "."
        fp == IF hasDot THEN TakeDigits0(Tail(ip.rest)) ELSE TakeDigits0(<< >>)
        num == ip.val * fp.pow + fp.val
    IN IF ip.cnt + fp.cnt = 0 THEN [err |-> "invalid_argument", val |-> IntV(0)]
       ELSE IF ip.ovf \/ fp.ovf THEN [err |-> "out_of_range", val |-> IntV(0)]
       ELSE [err |-> NoErr, val |-> FloatV(IF neg THEN 0 - num ELSE num, fp.pow)]

(* std::getline(ss, field, ','): the pieces between commas; a last piece   *)
(* that is empty is not produced                                           *)
RECURSIVE SplitAcc(_, _, _)
SplitAcc(s, cur, acc) ==
    IF s = << >> THEN (IF cur = << >> THEN acc ELSE Append(acc, cur))
    ELSE IF Head(s) = "," THEN SplitAcc(Tail(s), << >>, Append(acc, cur))
    ELSE SplitAcc(Tail(s), Append(cur, Head(s)), acc)

SplitFields(line) == SplitAcc(line, << >>, << >>)

(* the switch of ScanOperator::next *)
ParseField(field, type) ==
    CASE type = "INT" -> stoi(field)
      [] type = "FLOAT" -> stof(field)
      [] type = "STRING" -> [err |-> NoErr, val |-> StrV(field)]
      [] type = "BOOL" -> [err |-> NoErr,
                           val |-> BoolV(field = <<"t", "r", "u", "e">> \/ field = <<"1">>)]

-----------------------------------------------------------------------------
(* expression.h *)

Constant(val) == [e |-> "Constant", value_ |-> val]
ColumnRef(name) == [e |-> "ColumnRef", colName_ |-> name]
Binary(op, l, r) == [e |-> "Binary", op_ |-> op, left_ |-> l, right_ |-> r]
Not(x) == [e |-> "Not", expr_ |-> x]

(* an out-of-bounds read either faults (the process dies with Crash) or    *)
(* yields some value; Fault stands for the first outcome                   *)
Crash == "SIGSEGV"
Fault == [t |-> "fault", v |-> 0]

is_numeric(v) == v.t \in {"int", "float"}

(* to_double, as the fraction [n, d] *)
to_double(v) == IF v.t = "int" THEN [n |-> v.v, d |-> 1] ELSE v.v

ArithOps == {"ADD", "SUB", "MUL", "DIV"}
OrderOps == {"GT", "GTE", "LT", "LTE"}

Ok(val) == [err |-> NoErr, val |-> val]
Throw(what) == [err |-> what, val |-> BoolV(FALSE)]

(* An evaluate whose ADD of two ints stays an int. *)
BinaryApply_IntSum(op, leftVal, rightVal) ==
    LET left == to_double(leftVal)
        right == to_double(rightVal)
        numeric == is_numeric(leftVal) /\ is_numeric(rightVal)
        same == leftVal.t = rightVal.t /\ leftVal.v = rightVal.v
    IN IF op \in ArithOps
       THEN IF ~numeric THEN Throw("Arithmetic on non-numeric value")
            ELSE IF op = "ADD"
                 THEN IF leftVal.t = "int" /\ rightVal.t = "int"
                      THEN Ok(IntV(leftVal.v + rightVal.v))
                      ELSE Ok(FloatV(left.n * right.d + right.n * left.d, left.d * right.d))
            ELSE IF op = "SUB"
                 THEN Ok(FloatV(left.n * right.d - right.n * left.d, left.d * right.d))
            ELSE IF op = "MUL" THEN Ok(FloatV(left.n * right.n, left.d * right.d))
            ELSE IF right.n = 0 THEN Throw("Division by zero.")
            ELSE Ok(FloatV(left.n * right.d, left.d * right.n))
       ELSE IF op = "EQ" THEN Ok(BoolV(same))
       ELSE IF op = "NEQ" THEN Ok(BoolV(~same))
       ELSE IF op \in OrderOps
       THEN IF ~numeric THEN Throw("Numeric comparison on non-numeric value")
            ELSE IF op = "GT" THEN Ok(BoolV(left.n * right.d > right.n * left.d))
            ELSE IF op = "GTE" THEN Ok(BoolV(left.n * right.d >= right.n * left.d))
            ELSE IF op = "LT" THEN Ok(BoolV(left.n * right.d < right.n * left.d))
            ELSE Ok(BoolV(left.n * right.d <= right.n * left.d))
       ELSE Throw("Unsupported or unimplemented binary operator")

(* the body of BinaryExpression::evaluate once both operands have a value *)
BinaryApply(op, leftVal, rightVal) ==
    LET left == to_double(leftVal)
        right == to_double(rightVal)
        numeric == is_numeric(leftVal) /\ is_numeric(rightVal)
        same == leftVal.t = rightVal.t /\ leftVal.v = rightVal.v
    IN IF op \in ArithOps
       THEN IF ~numeric THEN Throw("Arithmetic on non-numeric value")
            ELSE IF op = "ADD"
                 THEN Ok(FloatV(left.n * right.d + right.n * left.d, left.d * right.d))
            ELSE IF op = "SUB"
                 THEN Ok(FloatV(left.n * right.d - right.n * left.d, left.d * right.d))
            ELSE IF op = "MUL" THEN Ok(FloatV(left.n * right.n, left.d * right.d))
            ELSE IF right.n = 0 THEN Throw("Division by zero.")
            ELSE Ok(FloatV(left.n * right.d, left.d * right.n))
       ELSE IF op = "EQ" THEN Ok(BoolV(same))
       ELSE IF op = "NEQ" THEN Ok(BoolV(~same))
       ELSE IF op \in OrderOps
       THEN IF ~numeric THEN Throw("Numeric comparison on non-numeric value")
            ELSE IF op = "GT" THEN Ok(BoolV(left.n * right.d > right.n * left.d))
            ELSE IF op = "GTE" THEN Ok(BoolV(left.n * right.d >= right.n * left.d))
            ELSE IF op = "LT" THEN Ok(BoolV(left.n * right.d < right.n * left.d))
            ELSE Ok(BoolV(left.n * right.d <= right.n * left.d))
       ELSE Throw("Unsupported or unimplemented binary operator")

(* Expression::evaluate.  tuple[colInfo.index] is an unchecked vector      *)
(* access: past the end of the tuple it yields whatever this execution     *)
(* finds there (garbage), or the process dies (Crash).                     *)
RECURSIVE evaluate(_, _, _)
evaluate(expr, tuple, schema) ==
    CASE expr.e = "Constant" -> Ok(expr.value_)
      [] expr.e = "ColumnRef" ->
           IF ~hasColumn(schema, expr.colName_) THEN Throw("out_of_range")
           ELSE LET colInfo == getColumn(schema, expr.colName_)
                IN IF colInfo.index < Len(tuple) THEN Ok(tuple[colInfo.index + 1])
                   ELSE IF garbage = Fault THEN Throw(Crash)
                   ELSE Ok(garbage)
      [] expr.e = "Binary" ->
           LET l == evaluate(expr.left_, tuple, schema)
           IN IF l.err # NoErr THEN l
              ELSE LET r == evaluate(expr.right_, tuple, schema)
                   IN IF r.err # NoErr THEN r
                      ELSE BinaryApply(expr.op_, l.val, r.val)
      [] expr.e = "Not" ->
           LET x == evaluate(expr.expr_, tuple, schema)
           IN IF x.err # NoErr THEN x
              ELSE IF x.val.t # "bool" THEN Throw("bad_variant_access")
              ELSE Ok(BoolV(~x.val.v))

(* std::get<bool>(expr->evaluate(tuple, schema)) *)
evalBool(expr, tuple, schema) ==
    LET x == evaluate(expr, tuple, schema)
    IN IF x.err # NoErr THEN x
       ELSE IF x.val.t # "bool" THEN Throw("bad_variant_access")
       ELSE x

-----------------------------------------------------------------------------
(* catalog.h: the schemas of the data directory, keyed by file name *)

RECURSIVE MkSchema(_, _)
MkSchema(schema, cols) ==
    IF cols = << >> THEN schema
    ELSE MkSchema(addColumn(schema, Head(cols)[1], Head(cols)[2]), Tail(cols))

schemas_ ==
    [tn \in {"A.csv", "B.csv"} |->
        IF tn = "A.csv" THEN MkSchema(EmptySchema, << <<"k", "INT">>, <<"s", "STRING">> >>)
        ELSE MkSchema(EmptySchema, << <<"k", "INT">>, <<"f", "FLOAT">> >>)]

-----------------------------------------------------------------------------
(* operator.h: construction *)

RECURSIVE Qualify(_, _, _)
Qualify(schema, alias, cols) ==
    IF cols = << >> THEN schema
    ELSE Qualify(addColumn(schema, alias \o "." \o Head(cols).name, Head(cols).type),
                 alias, Tail(cols))

NewScan(table, alias) ==
    [kind |-> "Scan", tablePath_ |-> table, alias_ |-> alias,
     qualifiedSchema_ |-> Qualify(EmptySchema, alias, getColumns(schemas_[table])),
     fileStream_ |-> [is_open |-> FALSE, pos |-> 0]]

RECURSIVE getSchema(_)
getSchema(op) ==
    CASE op.kind = "Scan" -> op.qualifiedSchema_
      [] op.kind \in {"Select", "Limit"} -> getSchema(op.input_)
      [] OTHER -> op.outputSchema_

NewSelect(input, pred) == [kind |-> "Select", input_ |-> input, predicate_ |-> pred]

(* the type the ProjectOperator constructor gives an output column *)
ProjectType(expr) == IF expr.e = "Binary" THEN "FLOAT" ELSE "STRING"

RECURSIVE ProjectSchema(_, _)
ProjectSchema(schema, exprs) ==
    IF exprs = << >> THEN schema
    ELSE ProjectSchema(addColumn(schema, Head(exprs).alias, ProjectType(Head(exprs).expr)),
                       Tail(exprs))

NewProject(input, exprs) ==
    [kind |-> "Project", input_ |-> input, expressions_ |-> exprs,
     outputSchema_ |-> ProjectSchema(EmptySchema, exprs)]

NewLimit(input, limit) ==
    [kind |-> "Limit", input_ |-> input, limit_ |-> limit, count_ |-> 0]

NewNestedLoopJoin(left, right, cond) ==
    [kind |-> "NestedLoopJoin", left_ |-> left, right_ |-> right, condition_ |-> cond,
     outputSchema_ |-> merge(getSchema(left), getSchema(right)),
     leftTuple_ |-> << >>, hasLeftTuple_ |-> FALSE]

NewBlockNestedLoopJoin(left, right, cond, blockSize) ==
    [kind |-> "BlockNestedLoopJoin", left_ |-> left, right_ |-> right,
     condition_ |-> cond,
     outputSchema_ |-> merge(getSchema(left), getSchema(right)),
     blockSize_ |-> blockSize, leftBlock_ |-> << >>, blockIndex_ |-> 0]

(* an iterator into one of the hash join's vectors: a bucket of            *)
(* hashTable_ (named by its key), emptyVec_, or none yet (singular)        *)
Iter(vec, key, idx) == [vec |-> vec, key |-> key, idx |-> idx]
SingularIter == Iter("singular", IntV(0), 0)

(* A hash join that takes each key for the other side's. *)
NewHashJoin_KeysSwapped(left, right, probeKey, buildKey) ==
    [kind |-> "HashJoin", probe_ |-> left, build_ |-> right,
     probeKeyExpr_ |-> buildKey, buildKeyExpr_ |-> probeKey,
     outputSchema_ |-> merge(getSchema(left), getSchema(right)),
     hashTable_ |-> << >>, probeTuple_ |-> << >>, hasProbeTuple_ |-> FALSE,
     matchIterator_ |-> SingularIter, matchEndIterator_ |-> SingularIter]

NewHashJoin(left, right, probeKey, buildKey) ==
    [kind |-> "HashJoin", probe_ |-> left, build_ |-> right,
     probeKeyExpr_ |-> probeKey, buildKeyExpr_ |-> buildKey,
     outputSchema_ |-> merge(getSchema(left), getSchema(right)),
     hashTable_ |-> << >>, probeTuple_ |-> << >>, hasProbeTuple_ |-> FALSE,
     matchIterator_ |-> SingularIter, matchEndIterator_ |-> SingularIter]

-----------------------------------------------------------------------------
(* operator.h: open / next / close.  An operation returns the operator as  *)
(* it leaves it (op), for next the bool it returns (ok) and the caller's   *)
(* tuple as it leaves it (tuple), and the exception thrown, if any (err).  *)

OpenRes(op, err) == [op |-> op, err |-> err]
NextRes(op, ok, tuple, err) == [op |-> op, ok |-> ok, tuple |-> tuple, err |-> err]

(* With(v, LAMBDA x : e) is e with x naming the result v of a call: the    *)
(* call is made once, where it stands in the code.                         *)
With(v, F(_)) == F(v)

RECURSIVE Open(_), Next(_, _), Close(_)
RECURSIVE ScanNext(_, _), SelectNext(_, _), NestedLoopJoinNext(_, _)
RECURSIVE BlockNestedLoopJoinNext(_, _), HashJoinNext(_, _)
RECURSIVE LoadLeftTuples(_, _), BuildLoop(_, _)

(* ---- Scan ---- *)

(* An open() that rewinds a stream that is already open. *)
ScanOpen_Rewind(op) ==
    IF op.tablePath_ \notin DOMAIN files
    THEN OpenRes(op, "Cannot open data file")
    ELSE OpenRes([op EXCEPT !.fileStream_ = [is_open |-> TRUE, pos |-> 1]], NoErr)

ScanOpen(op) ==
    IF op.fileStream_.is_open THEN OpenRes(op, NoErr)
    ELSE IF op.tablePath_ \notin DOMAIN files
         THEN OpenRes(op, "Cannot open data file")
    ELSE OpenRes([op EXCEPT !.fileStream_ = [is_open |-> TRUE, pos |-> 1]], NoErr)

(* the field loop of ScanOperator::next: colIdx counts the fields taken *)
RECURSIVE ParseLine(_, _, _, _)
ParseLine(fields, cols, colIdx, tuple) ==
    IF colIdx >= Len(fields) \/ colIdx >= Len(cols) THEN [err |-> NoErr, tuple |-> tuple]
    ELSE LET p == ParseField(fields[colIdx + 1], cols[colIdx + 1].type)
         IN IF p.err # NoErr THEN [err |-> p.err, tuple |-> tuple]
            ELSE ParseLine(fields, cols, colIdx + 1, Append(tuple, p.val))

ScanNext(op, tuple) ==
    LET fs == op.fileStream_
    IN IF ~fs.is_open \/ fs.pos >= Len(files[op.tablePath_])
       THEN NextRes(op, FALSE, tuple, NoErr)
       ELSE LET line == files[op.tablePath_][fs.pos + 1]
                op1 == [op EXCEPT !.fileStream_.pos = fs.pos + 1]
            IN With(ParseLine(SplitFields(line), getColumns(op.qualifiedSchema_), 0, << >>),
                    LAMBDA p :
                   IF p.err = "invalid_argument" THEN ScanNext(op1, p.tuple)
                   ELSE IF p.err # NoErr THEN NextRes(op1, FALSE, p.tuple, p.err)
                   ELSE NextRes(op1, TRUE, p.tuple, NoErr))

(* A close() that flips the stream instead of closing it. *)
ScanClose_Toggle(op) ==
    IF op.fileStream_.is_open THEN [op EXCEPT !.fileStream_.is_open = FALSE]
    ELSE [op EXCEPT !.fileStream_.is_open = TRUE]

ScanClose(op) ==
    IF op.fileStream_.is_open THEN [op EXCEPT !.fileStream_.is_open = FALSE]
    ELSE op

(* ---- Select ---- *)

SelectOpen(op) ==
    With(Open(op.input_), LAMBDA i : OpenRes([op EXCEPT !.input_ = i.op], i.err))

(* A next() that gives up at the first tuple the predicate rejects. *)
SelectNext_StopAtFalse(op, tuple) ==
    With(Next(op.input_, tuple), LAMBDA i :
        LET op1 == [op EXCEPT !.input_ = i.op]
        IN IF i.err # NoErr \/ ~i.ok THEN NextRes(op1, FALSE, i.tuple, i.err)
           ELSE With(evalBool(op.predicate_, i.tuple, getSchema(op)), LAMBDA result :
                    IF result.err # NoErr THEN NextRes(op1, FALSE, i.tuple, result.err)
                    ELSE IF result.val.v THEN NextRes(op1, TRUE, i.tuple, NoErr)
                    ELSE NextRes(op1, FALSE, i.tuple, NoErr)))

SelectNext(op, tuple) ==
    With(Next(op.input_, tuple), LAMBDA i :
        LET op1 == [op EXCEPT !.input_ = i.op]
        IN IF i.err # NoErr \/ ~i.ok THEN NextRes(op1, FALSE, i.tuple, i.err)
           ELSE With(evalBool(op.predicate_, i.tuple, getSchema(op)), LAMBDA result :
                    IF result.err # NoErr THEN NextRes(op1, FALSE, i.tuple, result.err)
                    ELSE IF result.val.v THEN NextRes(op1, TRUE, i.tuple, NoErr)
                    ELSE SelectNext(op1, i.tuple)))

SelectClose(op) == [op EXCEPT !.input_ = Close(op.input_)]

(* ---- Project ---- *)

ProjectOpen(op) ==
    With(Open(op.input_), LAMBDA i : OpenRes([op EXCEPT !.input_ = i.op], i.err))

RECURSIVE ProjectEval(_, _, _, _)
ProjectEval(exprs, inputTuple, schema, tuple) ==
    IF exprs = << >> THEN [err |-> NoErr, tuple |-> tuple]
    ELSE LET x == evaluate(Head(exprs).expr, inputTuple, schema)
         IN IF x.err # NoErr THEN [err |-> x.err, tuple |-> tuple]
            ELSE ProjectEval(Tail(exprs), inputTuple, schema, Append(tuple, x.val))

(* A next() that reports an input that threw as an input that has ended. *)
ProjectNext_Swallow(op, tuple) ==
    With(Next(op.input_, << >>), LAMBDA i :
        LET op1 == [op EXCEPT !.input_ = i.op]
        IN IF i.err # NoErr \/ ~i.ok THEN NextRes(op1, FALSE, tuple, NoErr)
           ELSE With(ProjectEval(op.expressions_, i.tuple, getSchema(op.input_), << >>),
                     LAMBDA x : NextRes(op1, x.err = NoErr, x.tuple, x.err)))

ProjectNext(op, tuple) ==
    With(Next(op.input_, << >>), LAMBDA i :
        LET op1 == [op EXCEPT !.input_ = i.op]
        IN IF i.err # NoErr \/ ~i.ok THEN NextRes(op1, FALSE, tuple, i.err)
           ELSE With(ProjectEval(op.expressions_, i.tuple, getSchema(op.input_), << >>),
                     LAMBDA x : NextRes(op1, x.err = NoErr, x.tuple, x.err)))

ProjectClose(op) == [op EXCEPT !.input_ = Close(op.input_)]

(* ---- Limit ---- *)

LimitOpen(op) ==
    With(Open(op.input_), LAMBDA i :
        IF i.err # NoErr THEN OpenRes([op EXCEPT !.input_ = i.op], i.err)
        ELSE OpenRes([op EXCEPT !.input_ = i.op, !.count_ = 0], NoErr))

(* A next() that pulls from its input before it looks at the count. *)
LimitNext_PullFirst(op, tuple) ==
    With(Next(op.input_, tuple), LAMBDA i :
        LET op1 == [op EXCEPT !.input_ = i.op]
        IN IF i.err # NoErr THEN NextRes(op1, FALSE, i.tuple, i.err)
           ELSE IF op.count_ >= op.limit_ \/ ~i.ok THEN NextRes(op1, FALSE, i.tuple, NoErr)
           ELSE NextRes([op1 EXCEPT !.count_ = op.count_ + 1], TRUE, i.tuple, NoErr))

(* A next() that lets one tuple more through than the limit. *)
LimitNext_OneMore(op, tuple) ==
    IF op.count_ > op.limit_ THEN NextRes(op, FALSE, tuple, NoErr)
    ELSE With(Next(op.input_, tuple), LAMBDA i :
             LET op1 == [op EXCEPT !.input_ = i.op]
             IN IF i.err # NoErr \/ ~i.ok THEN NextRes(op1, FALSE, i.tuple, i.err)
                ELSE NextRes([op1 EXCEPT !.count_ = op.count_ + 1], TRUE, i.tuple, NoErr))

(* A next() that starts counting afresh once the limit has been reported. *)
LimitNext_Rearm(op, tuple) ==
    IF op.count_ >= op.limit_ THEN NextRes([op EXCEPT !.count_ = 0], FALSE, tuple, NoErr)
    ELSE With(Next(op.input_, tuple), LAMBDA i :
             LET op1 == [op EXCEPT !.input_ = i.op]
             IN IF i.err # NoErr \/ ~i.ok THEN NextRes(op1, FALSE, i.tuple, i.err)
                ELSE NextRes([op1 EXCEPT !.count_ = op.count_ + 1], TRUE, i.tuple, NoErr))

LimitNext(op, tuple) ==
    IF op.count_ >= op.limit_ THEN NextRes(op, FALSE, tuple, NoErr)
    ELSE With(Next(op.input_, tuple), LAMBDA i :
             LET op1 == [op EXCEPT !.input_ = i.op]
             IN IF i.err # NoErr \/ ~i.ok THEN NextRes(op1, FALSE, i.tuple, i.err)
                ELSE NextRes([op1 EXCEPT !.count_ = op.count_ + 1], TRUE, i.tuple, NoErr))

LimitClose(op) == [op EXCEPT !.input_ = Close(op.input_)]

(* right_->close(); right_->open(); *)

(* A reset of the inner input that forgets the close(). *)
Reopen_NoClose(child) == Open(child)

Reopen(child) == Open(Close(child))

(* ---- Nested-loop join ---- *)

NestedLoopJoinOpen(op) ==
    With(Open(op.left_), LAMBDA l :
        LET op1 == [op EXCEPT !.left_ = l.op]
        IN IF l.err # NoErr THEN OpenRes(op1, l.err)
           ELSE With(Open(op.right_), LAMBDA r :
               LET op2 == [op1 EXCEPT !.right_ = r.op]
               IN IF r.err # NoErr THEN OpenRes(op2, r.err)
                  ELSE With(Next(op2.left_, op2.leftTuple_), LAMBDA n :
                      LET op3 == [op2 EXCEPT !.left_ = n.op, !.leftTuple_ = n.tuple]
                      IN IF n.err # NoErr THEN OpenRes(op3, n.err)
                         ELSE OpenRes([op3 EXCEPT !.hasLeftTuple_ = n.ok], NoErr))))

NestedLoopJoinNext(op, tuple) ==
    IF ~op.hasLeftTuple_ THEN NextRes(op, FALSE, tuple, NoErr)
    ELSE With(Next(op.right_, << >>), LAMBDA r :
        LET op1 == [op EXCEPT !.right_ = r.op]
            combined == op.leftTuple_ \o r.tuple
        IN IF r.err # NoErr THEN NextRes(op1, FALSE, tuple, r.err)
           ELSE IF r.ok
           THEN With(evalBool(op.condition_, combined, op.outputSchema_), LAMBDA c :
                    IF c.err # NoErr THEN NextRes(op1, FALSE, tuple, c.err)
                    ELSE IF c.val.v THEN NextRes(op1, TRUE, combined, NoErr)
                    ELSE NestedLoopJoinNext(op1, tuple))
           ELSE With(Next(op1.left_, op1.leftTuple_), LAMBDA n :
               LET op2 == [op1 EXCEPT !.left_ = n.op, !.leftTuple_ = n.tuple]
               IN IF n.err # NoErr THEN NextRes(op2, FALSE, tuple, n.err)
                  ELSE With(Reopen(op2.right_), LAMBDA ro :
                      LET op3 == [op2 EXCEPT !.hasLeftTuple_ = n.ok, !.right_ = ro.op]
                      IN IF ro.err # NoErr THEN NextRes(op3, FALSE, tuple, ro.err)
                         ELSE NestedLoopJoinNext(op3, tuple))))

(* A close() that forgets the right input. *)
NestedLoopJoinClose_LeftOnly(op) ==
    [op EXCEPT !.left_ = Close(op.left_)]

NestedLoopJoinClose(op) ==
    [op EXCEPT !.left_ = Close(op.left_), !.right_ = Close(op.right_)]

(* ---- Block nested-loop join ---- *)

(* the while loop of loadNextLeftBlock; temp is its local tuple *)
LoadLeftTuples(op, temp) ==
    IF Len(op.leftBlock_) >= op.blockSize_ THEN OpenRes(op, NoErr)
    ELSE With(Next(op.left_, temp), LAMBDA n :
        LET op1 == [op EXCEPT !.left_ = n.op]
        IN IF n.err # NoErr \/ ~n.ok THEN OpenRes(op1, n.err)
           ELSE LoadLeftTuples([op1 EXCEPT !.leftBlock_ = Append(op.leftBlock_, n.tuple)],
                               n.tuple))

(* A block load that leaves the buffer in the reverse of the load order. *)
loadNextLeftBlock_Reversed(op) ==
    With(LoadLeftTuples([op EXCEPT !.leftBlock_ = << >>, !.blockIndex_ = 0], << >>),
         LAMBDA ld :
        IF ld.err # NoErr THEN [op |-> ld.op, ok |-> FALSE, err |-> ld.err]
        ELSE With(Reopen(ld.op.right_), LAMBDA ro :
            LET n == Len(ld.op.leftBlock_)
                op1 == [ld.op EXCEPT !.right_ = ro.op,
                                     !.leftBlock_ = [i \in 1..n |-> ld.op.leftBlock_[n + 1 - i]]]
            IN [op |-> op1, ok |-> ro.err = NoErr /\ op1.leftBlock_ # << >>,
                err |-> ro.err]))

loadNextLeftBlock(op) ==
    With(LoadLeftTuples([op EXCEPT !.leftBlock_ = << >>, !.blockIndex_ = 0], << >>),
         LAMBDA ld :
        IF ld.err # NoErr THEN [op |-> ld.op, ok |-> FALSE, err |-> ld.err]
        ELSE With(Reopen(ld.op.right_), LAMBDA ro :
            LET op1 == [ld.op EXCEPT !.right_ = ro.op]
            IN [op |-> op1, ok |-> ro.err = NoErr /\ op1.leftBlock_ # << >>,
                err |-> ro.err]))

BlockNestedLoopJoinOpen(op) ==
    With(Open(op.left_), LAMBDA l :
        LET op1 == [op EXCEPT !.left_ = l.op]
        IN IF l.err # NoErr THEN OpenRes(op1, l.err)
           ELSE With(Open(op.right_), LAMBDA r :
               LET op2 == [op1 EXCEPT !.right_ = r.op]
               IN IF r.err # NoErr THEN OpenRes(op2, r.err)
                  ELSE With(loadNextLeftBlock(op2), LAMBDA ld : OpenRes(ld.op, ld.err))))

BlockNestedLoopJoinNext(op, tuple) ==
    IF op.leftBlock_ = << >> THEN NextRes(op, FALSE, tuple, NoErr)
    ELSE With(Next(op.right_, << >>), LAMBDA r :
        LET op1 == [op EXCEPT !.right_ = r.op]
            leftTuple == op.leftBlock_[op.blockIndex_ + 1]
            combined == leftTuple \o r.tuple
            op2 == [op1 EXCEPT !.blockIndex_ = op.blockIndex_ + 1]
        IN IF r.err # NoErr THEN NextRes(op1, FALSE, tuple, r.err)
           ELSE IF r.ok
           THEN With(evalBool(op.condition_, combined, op.outputSchema_), LAMBDA c :
                    IF c.err # NoErr THEN NextRes(op1, FALSE, tuple, c.err)
                    ELSE IF c.val.v THEN NextRes(op1, TRUE, combined, NoErr)
                    ELSE BlockNestedLoopJoinNext(op1, tuple))
           ELSE IF op2.blockIndex_ >= Len(op2.leftBlock_)
           THEN With(loadNextLeftBlock(op2), LAMBDA ld :
                    IF ld.err # NoErr \/ ~ld.ok
                    THEN NextRes(ld.op, FALSE, tuple, ld.err)
                    ELSE BlockNestedLoopJoinNext(ld.op, tuple))
           ELSE With(Reopen(op2.right_), LAMBDA ro :
                    LET op3 == [op2 EXCEPT !.right_ = ro.op]
                    IN IF ro.err # NoErr THEN NextRes(op3, FALSE, tuple, ro.err)
                       ELSE BlockNestedLoopJoinNext(op3, tuple)))

BlockNestedLoopJoinClose(op) ==
    [op EXCEPT !.left_ = Close(op.left_), !.right_ = Close(op.right_)]

(* ---- Hash join ---- *)

(* hashTable_[key].push_back(buildTuple) *)

(* An insert that puts the newest build tuple first in its bucket. *)
HashPut_Front(table, key, buildTuple) ==
    [k \in DOMAIN table \cup {key} |->
        IF k \in DOMAIN table
        THEN (IF k = key THEN <<buildTuple>> \o table[k] ELSE table[k])
        ELSE <<buildTuple>>]

HashPut(table, key, buildTuple) ==
    [k \in DOMAIN table \cup {key} |->
        IF k \in DOMAIN table
        THEN (IF k = key THEN Append(table[k], buildTuple) ELSE table[k])
        ELSE <<buildTuple>>]

(* the while loop of the build phase; buildTuple is its local tuple *)
BuildLoop(op, buildTuple) ==
    With(Next(op.build_, buildTuple), LAMBDA n :
        LET op1 == [op EXCEPT !.build_ = n.op]
        IN IF n.err # NoErr \/ ~n.ok THEN OpenRes(op1, n.err)
           ELSE With(evaluate(op.buildKeyExpr_, n.tuple, getSchema(op.build_)), LAMBDA key :
                    IF key.err # NoErr THEN OpenRes(op1, key.err)
                    ELSE BuildLoop([op1 EXCEPT !.hashTable_ =
                                        HashPut(op.hashTable_, key.val, n.tuple)],
                                   n.tuple)))

(* An open() that builds on top of the table of the previous run. *)
HashJoinOpen_NoClear(op) ==
    With(Open(op.build_), LAMBDA b :
        LET op1 == [op EXCEPT !.build_ = b.op]
        IN IF b.err # NoErr THEN OpenRes(op1, b.err)
           ELSE With(BuildLoop(op1, << >>), LAMBDA bl :
               IF bl.err # NoErr THEN bl
               ELSE With(Close(bl.op.build_), LAMBDA closed :
                   With(Open(bl.op.probe_), LAMBDA p :
                       LET op3 == [bl.op EXCEPT !.build_ = closed, !.probe_ = p.op]
                       IN IF p.err # NoErr THEN OpenRes(op3, p.err)
                          ELSE OpenRes([op3 EXCEPT !.hasProbeTuple_ = FALSE], NoErr)))))

(* An open() that opens the probe child before it builds the table. *)
HashJoinOpen_ProbeFirst(op) ==
    With(Open(op.probe_), LAMBDA p :
        LET op0 == [op EXCEPT !.hashTable_ = << >>, !.probe_ = p.op]
        IN IF p.err # NoErr THEN OpenRes(op0, p.err)
           ELSE With(Open(op0.build_), LAMBDA b :
               LET op1 == [op0 EXCEPT !.build_ = b.op]
               IN IF b.err # NoErr THEN OpenRes(op1, b.err)
                  ELSE With(BuildLoop(op1, << >>), LAMBDA bl :
                      IF bl.err # NoErr THEN bl
                      ELSE OpenRes([bl.op EXCEPT !.build_ = Close(bl.op.build_),
                                                 !.hasProbeTuple_ = FALSE], NoErr))))

HashJoinOpen(op) ==
    With(Open(op.build_), LAMBDA b :
        LET op1 == [op EXCEPT !.hashTable_ = << >>, !.build_ = b.op]
        IN IF b.err # NoErr THEN OpenRes(op1, b.err)
           ELSE With(BuildLoop(op1, << >>), LAMBDA bl :
               IF bl.err # NoErr THEN bl
               ELSE With(Close(bl.op.build_), LAMBDA closed :
                   With(Open(bl.op.probe_), LAMBDA p :
                       LET op3 == [bl.op EXCEPT !.build_ = closed, !.probe_ = p.op]
                       IN IF p.err # NoErr THEN OpenRes(op3, p.err)
                          ELSE OpenRes([op3 EXCEPT !.hasProbeTuple_ = FALSE], NoErr)))))

HashJoinNext(op, tuple) ==
    IF op.hasProbeTuple_ /\ op.matchIterator_ # op.matchEndIterator_
    THEN LET it == op.matchIterator_
         IN IF it.vec = "bucket" /\ it.key \in DOMAIN op.hashTable_
               /\ it.idx < Len(op.hashTable_[it.key])
            THEN LET buildTuple == op.hashTable_[it.key][it.idx + 1]
                 IN NextRes([op EXCEPT !.matchIterator_.idx = it.idx + 1], TRUE,
                            op.probeTuple_ \o buildTuple, NoErr)
            ELSE NextRes(op, FALSE, tuple, Crash)
    ELSE With(Next(op.probe_, op.probeTuple_), LAMBDA n :
        LET op1 == [op EXCEPT !.probe_ = n.op, !.probeTuple_ = n.tuple]
            op2 == [op1 EXCEPT !.hasProbeTuple_ = TRUE]
        IN IF n.err # NoErr THEN NextRes(op1, FALSE, tuple, n.err)
           ELSE IF ~n.ok
           THEN NextRes([op1 EXCEPT !.hasProbeTuple_ = FALSE], FALSE, tuple, NoErr)
           ELSE With(evaluate(op.probeKeyExpr_, op2.probeTuple_, getSchema(op.probe_)),
                     LAMBDA key :
               IF key.err # NoErr THEN NextRes(op2, FALSE, tuple, key.err)
               ELSE IF key.val \in DOMAIN op.hashTable_
               THEN HashJoinNext([op2 EXCEPT
                        !.matchIterator_ = Iter("bucket", key.val, 0),
                        !.matchEndIterator_ =
                            Iter("bucket", key.val, Len(op.hashTable_[key.val]))], tuple)
               ELSE HashJoinNext([op2 EXCEPT
                        !.matchIterator_ = Iter("emptyVec_", IntV(0), 0),
                        !.matchEndIterator_ = Iter("emptyVec_", IntV(0), 0)], tuple)))

HashJoinClose(op) == [op EXCEPT !.probe_ = Close(op.probe_)]

(* ---- virtual dispatch ---- *)

Open(op) ==
    CASE op.kind = "Scan" -> ScanOpen(op)
      [] op.kind = "Select" -> SelectOpen(op)
      [] op.kind = "Project" -> ProjectOpen(op)
      [] op.kind = "Limit" -> LimitOpen(op)
      [] op.kind = "NestedLoopJoin" -> NestedLoopJoinOpen(op)
      [] op.kind = "BlockNestedLoopJoin" -> BlockNestedLoopJoinOpen(op)
      [] op.kind = "HashJoin" -> HashJoinOpen(op)

Next(op, tuple) ==
    CASE op.kind = "Scan" -> ScanNext(op, tuple)
      [] op.kind = "Select" -> SelectNext(op, tuple)
      [] op.kind = "Project" -> ProjectNext(op, tuple)
      [] op.kind = "Limit" -> LimitNext(op, tuple)
      [] op.kind = "NestedLoopJoin" -> NestedLoopJoinNext(op, tuple)
      [] op.kind = "BlockNestedLoopJoin" -> BlockNestedLoopJoinNext(op, tuple)
      [] op.kind = "HashJoin" -> HashJoinNext(op, tuple)

Close(op) ==
    CASE op.kind = "Scan" -> ScanClose(op)
      [] op.kind = "Select" -> SelectClose(op)
      [] op.kind = "Project" -> ProjectClose(op)
      [] op.kind = "Limit" -> LimitClose(op)
      [] op.kind = "NestedLoopJoin" -> NestedLoopJoinClose(op)
      [] op.kind = "BlockNestedLoopJoin" -> BlockNestedLoopJoinClose(op)
      [] op.kind = "HashJoin" -> HashJoinClose(op)

-----------------------------------------------------------------------------
(* plan_parser.h: the translator from a plan document to an operator tree. *)
(* A JSON object is a record; j.contains("k") is  "k" \in DOMAIN j.        *)

getSchemaColumnNames(schema) ==
    {getColumns(schema)[i].name : i \in 1..Len(getColumns(schema))}

(* A subset test that lets the empty set through. *)
isSubsetOf_EmptyToo(predicateCols, schemaCols) ==
    \A col \in predicateCols : col \in schemaCols

isSubsetOf(predicateCols, schemaCols) ==
    IF predicateCols = {} THEN FALSE
    ELSE \A col \in predicateCols : col \in schemaCols

(* Expression::collectColumnRefs: the ColumnRef names of the subtree *)
RECURSIVE collectColumnRefs(_)
collectColumnRefs(expr) ==
    CASE expr.e = "Constant" -> {}
      [] expr.e = "ColumnRef" -> {expr.colName_}
      [] expr.e = "Binary" -> collectColumnRefs(expr.left_) \cup collectColumnRefs(expr.right_)
      [] expr.e = "Not" -> collectColumnRefs(expr.expr_)

NoExpr == Constant(BoolV(FALSE))
ExprRes(expr, err) == [expr |-> expr, err |-> err]

RECURSIVE parseExpression(_)
parseExpression(exprJson) ==
    LET has(k) == k \in DOMAIN exprJson
        typed == has("const") /\ exprJson.type \in {"int", "string", "bool"}
    IN IF typed
       THEN ExprRes(Constant([t |-> exprJson.type, v |-> exprJson.const]), NoErr)
       ELSE IF has("const") /\ exprJson.type = "float"
       THEN ExprRes(Constant(FloatV(exprJson.const.n, exprJson.const.d)), NoErr)
       ELSE IF has("col") THEN ExprRes(ColumnRef(exprJson.col), NoErr)
       ELSE IF has("op")
       THEN IF exprJson.op = "NOT"
            THEN LET x == parseExpression(exprJson.expr)
                 IN ExprRes(Not(x.expr), x.err)
            ELSE LET l == parseExpression(exprJson.left)
                     r == parseExpression(exprJson.right)
                 IN ExprRes(Binary(exprJson.op, l.expr, r.expr),
                            IF l.err # NoErr THEN l.err ELSE r.err)
       ELSE ExprRes(NoExpr, "Invalid expression JSON")

NoOp == [kind |-> "None"]
PlanRes(op, err) == [op |-> op, err |-> err]

RECURSIVE parsePlan(_), parseJoin(_)

(* the method a Join node asks for; "nested_loop" when it names none *)
JoinMethod(joinJson) ==
    IF "method" \in DOMAIN joinJson THEN joinJson.method ELSE "nested_loop"

(* A rebuilt join that is a nested-loop join whatever the method. *)
RebuildJoin_NestedOnly(inputJson, newLeft, newRight) ==
    LET condition == parseExpression(inputJson.condition)
    IN IF condition.err # NoErr THEN PlanRes(NoOp, condition.err)
       ELSE PlanRes(NewNestedLoopJoin(newLeft, newRight, condition.expr), NoErr)

(* the join the Select branch of parsePlan rebuilds over a filtered input *)
RebuildJoin(inputJson, newLeft, newRight) ==
    LET condition == parseExpression(inputJson.condition)
    IN IF condition.err # NoErr THEN PlanRes(NoOp, condition.err)
       ELSE IF JoinMethod(inputJson) = "block_nested_loop"
       THEN PlanRes(NewBlockNestedLoopJoin(newLeft, newRight, condition.expr,
                                           DefaultBlockSize), NoErr)
       ELSE PlanRes(NewNestedLoopJoin(newLeft, newRight, condition.expr), NoErr)

(* the lambda parseJoin of parsePlan *)
parseJoin(joinJson) ==
    LET method == JoinMethod(joinJson)
        condJson == joinJson.condition
        left == parsePlan(joinJson.left)
        right == parsePlan(joinJson.right)
    IN IF method = "hash" /\ ("op" \notin DOMAIN condJson \/ condJson.op # "EQ")
       THEN PlanRes(NoOp, "Hash join only supports equality predicates.")
       ELSE IF left.err # NoErr THEN left
       ELSE IF right.err # NoErr THEN right
       ELSE IF method = "hash"
       THEN LET leftKey == parseExpression(condJson.left)
                rightKey == parseExpression(condJson.right)
                leftSchemaCols == getSchemaColumnNames(getSchema(left.op))
                rightSchemaCols == getSchemaColumnNames(getSchema(right.op))
                leftKeyCols == collectColumnRefs(leftKey.expr)
                rightKeyCols == collectColumnRefs(rightKey.expr)
            IN IF leftKey.err # NoErr THEN PlanRes(NoOp, leftKey.err)
               ELSE IF rightKey.err # NoErr THEN PlanRes(NoOp, rightKey.err)
               ELSE IF isSubsetOf(leftKeyCols, leftSchemaCols)
                       /\ isSubsetOf(rightKeyCols, rightSchemaCols)
               THEN PlanRes(NewHashJoin(left.op, right.op, leftKey.expr, rightKey.expr), NoErr)
               ELSE IF isSubsetOf(rightKeyCols, leftSchemaCols)
                       /\ isSubsetOf(leftKeyCols, rightSchemaCols)
               THEN PlanRes(NewHashJoin(left.op, right.op, rightKey.expr, leftKey.expr), NoErr)
               ELSE PlanRes(NoOp, "Hash join predicate columns do not align with join inputs.")
       ELSE LET condition == parseExpression(joinJson.condition)
            IN IF condition.err # NoErr THEN PlanRes(NoOp, condition.err)
               ELSE IF method = "block_nested_loop"
               THEN PlanRes(NewBlockNestedLoopJoin(left.op, right.op, condition.expr,
                                                   DefaultBlockSize), NoErr)
               ELSE PlanRes(NewNestedLoopJoin(left.op, right.op, condition.expr), NoErr)

(* the Select branch of parsePlan when its input is a Join *)
parseSelectOverJoin(planJson) ==
    LET inputJson == planJson.input
        predicate == parseExpression(planJson.predicate)
        predicateCols == collectColumnRefs(predicate.expr)
        left == parsePlan(inputJson.left)
        right == parsePlan(inputJson.right)
    IN IF predicate.err # NoErr THEN PlanRes(NoOp, predicate.err)
       ELSE IF left.err # NoErr THEN left
       ELSE IF right.err # NoErr THEN right
       ELSE LET pushToLeft ==
                    isSubsetOf(predicateCols, getSchemaColumnNames(getSchema(left.op)))
                pushToRight ==
                    isSubsetOf(predicateCols, getSchemaColumnNames(getSchema(right.op)))
            IN IF pushToLeft
               THEN RebuildJoin(inputJson, NewSelect(left.op, predicate.expr), right.op)
               ELSE IF pushToRight
               THEN RebuildJoin(inputJson, left.op, NewSelect(right.op, predicate.expr))
               ELSE LET join == parseJoin(inputJson)
                    IN IF join.err # NoErr THEN join
                       ELSE PlanRes(NewSelect(join.op, predicate.expr), NoErr)

RECURSIVE parseProjExprs(_)
parseProjExprs(exprs) ==
    IF exprs = << >> THEN [exprs |-> << >>, err |-> NoErr]
    ELSE LET x == parseExpression(Head(exprs).expr)
             rest == parseProjExprs(Tail(exprs))
         IN [exprs |-> << [alias |-> Head(exprs).as, expr |-> x.expr] >> \o rest.exprs,
             err |-> IF x.err # NoErr THEN x.err ELSE rest.err]

parsePlan(planJson) ==
    LET op == planJson.op
    IN IF op = "Scan"
       THEN IF planJson.table \in DOMAIN schemas_
            THEN PlanRes(NewScan(planJson.table, planJson.as), NoErr)
            ELSE PlanRes(NoOp, "out_of_range")
       ELSE IF op = "Select"
       THEN IF "op" \in DOMAIN planJson.input /\ planJson.input.op = "Join"
            THEN parseSelectOverJoin(planJson)
            ELSE LET input == parsePlan(planJson.input)
                     predicate == parseExpression(planJson.predicate)
                 IN IF input.err # NoErr THEN input
                    ELSE IF predicate.err # NoErr THEN PlanRes(NoOp, predicate.err)
                    ELSE PlanRes(NewSelect(input.op, predicate.expr), NoErr)
       ELSE IF op = "Project"
       THEN LET input == parsePlan(planJson.input)
                projExprs == parseProjExprs(planJson.exprs)
            IN IF input.err # NoErr THEN input
               ELSE IF projExprs.err # NoErr THEN PlanRes(NoOp, projExprs.err)
               ELSE PlanRes(NewProject(input.op, projExprs.exprs), NoErr)
       ELSE IF op = "Join" THEN parseJoin(planJson)
       ELSE IF op = "Limit"
       THEN LET input == parsePlan(planJson.input)
            IN IF input.err # NoErr THEN input
               ELSE PlanRes(NewLimit(input.op, planJson.limit), NoErr)
       ELSE PlanRes(NoOp, "Unknown operator type")

-----------------------------------------------------------------------------
(* The inputs: data files and operator trees *)

Header == <<"h">>

LinesA == { <<"1", ",", "x">>, <<"2", ",", "y">>, <<"2">> }
LinesB == { <<"1", ",", "5">>, <<"1", ",", ".", "5">>, <<"2", ",", "5">> }

(* the sequences of at most n different elements of S *)
RECURSIVE SeqsUpTo(_, _)
SeqsUpTo(S, n) ==
    IF n = 0 THEN { << >> }
    ELSE LET shorter == SeqsUpTo(S, n - 1)
         IN shorter \cup UNION { { Append(q, x) : x \in S \ {q[i] : i \in 1..(n - 1)} } :
                                  q \in {r \in shorter : Len(r) = n - 1} }

FilesA == { <<Header>> \o rows : rows \in SeqsUpTo(LinesA, MaxRowsA) }
FilesB == { <<Header>> \o rows : rows \in SeqsUpTo(LinesB, MaxRowsB) }

(* some line of the table has fewer fields than the table has columns *)
HasShortLine(table, file) ==
    \E i \in 2..Len(file) : Len(SplitFields(file[i])) < Len(getColumns(schemas_[table]))

Garbage == {Fault, IntV(1)}

ScanA == NewScan("A.csv", "a")
ScanB == NewScan("B.csv", "b")
ScanC == NewScan("B.csv", "c")

Col(name) == ColumnRef(name)
Lit(i) == Constant(IntV(i))

EqKeys == Binary("EQ", Col("a.k"), Col("b.k"))
BigA == Binary("GT", Col("a.k"), Lit(1))
IsX == Binary("EQ", Col("a.s"), Constant(StrV(<<"x">>)))
(* b.f / (b.k - 2): throws on a row with k = 2 *)
BadKey == Binary("DIV", Col("b.f"), Binary("SUB", Col("b.k"), Lit(2)))

FilteredA == NewSelect(ScanA, BigA)

EquiJoinTrees ==
    {NewNestedLoopJoin(ScanA, ScanB, EqKeys),
     NewNestedLoopJoin(FilteredA, ScanB, EqKeys),
     NewHashJoin(ScanA, ScanB, Col("a.k"), Col("b.k"))}
    \cup {NewBlockNestedLoopJoin(ScanA, ScanB, EqKeys, b) : b \in 1..MaxBlock}
    \cup {NewHashJoin(FilteredA, NewLimit(ScanB, k), Col("a.k"), Col("b.k")) : k \in 1..MaxLimit}
    \cup {NewBlockNestedLoopJoin(ScanA, NewLimit(ScanB, k), EqKeys, 1) : k \in 1..MaxLimit}

HashAB == NewHashJoin(ScanA, ScanB, Col("a.k"), Col("b.k"))

NestedTrees ==
    {NewNestedLoopJoin(ScanC, HashAB, Binary("EQ", Col("c.k"), Col("a.k"))),
     NewBlockNestedLoopJoin(ScanC, HashAB, Binary("EQ", Col("c.k"), Col("a.k")), 1),
     NewLimit(HashAB, 1),
     NewHashJoin(ScanA, ScanB, Col("a.k"), BadKey)}

QuotientB == NewProject(ScanB, << [alias |-> "q", expr |-> BadKey] >>)

SingleTrees ==
    {ScanA, NewSelect(ScanA, BigA), NewSelect(ScanA, IsX),
     NewProject(ScanA, << [alias |-> "n", expr |-> Col("a.k")],
                          [alias |-> "d", expr |-> Binary("MUL", Col("a.k"), Lit(2))] >>),
     QuotientB}
    \cup {NewLimit(ScanA, k) : k \in 0..MaxLimit}
    \cup {NewLimit(QuotientB, k) : k \in 0..MaxLimit}

Trees == SingleTrees \cup EquiJoinTrees \cup NestedTrees

(* the trees that read a column a short line of A.csv does not have; in    *)
(* the others no tuple read is out of bounds (GarbageUnread)               *)
ShortReaders == {NewSelect(ScanA, IsX)}

RECURSIVE Tables(_)
Tables(op) ==
    CASE op.kind = "Scan" -> {op.tablePath_}
      [] op.kind \in {"Select", "Project", "Limit"} -> Tables(op.input_)
      [] op.kind = "HashJoin" -> Tables(op.probe_) \cup Tables(op.build_)
      [] OTHER -> Tables(op.left_) \cup Tables(op.right_)

-----------------------------------------------------------------------------
(* The caller of the root operator: any sequence of open / next / close.   *)
(* After an exception only close() is called; after a crash, nothing.      *)

NoPlan == [op |-> "None"]

Init ==
    /\ plan = NoPlan
    /\ built \in Trees
    /\ \E fa \in FilesA, fb \in FilesB :
          /\ "A.csv" \notin Tables(built) => fa = <<Header>>
          /\ "B.csv" \notin Tables(built) => fb = <<Header>>
          /\ files = [tn \in {"A.csv", "B.csv"} |-> IF tn = "A.csv" THEN fa ELSE fb]
    /\ garbage \in IF built \in ShortReaders /\ HasShortLine("A.csv", files["A.csv"])
                   THEN Garbage ELSE {Fault}
    /\ root = built
    /\ phase = "new"
    /\ lastCall = "none"
    /\ lastRet = FALSE
    /\ lastErr = NoErr
    /\ out = << >>
    /\ sawEnd = FALSE
    /\ pastEnd = FALSE
    /\ clean = FALSE
    /\ prev = "none"

Callable == phase \in {"new", "open", "closed"}

Failed(err, how) == IF err = Crash THEN "crashed" ELSE how

CallOpen ==
    /\ Callable
    /\ LET r == Open(root)
       IN /\ root' = r.op
          /\ lastErr' = r.err
          /\ phase' = IF r.err = NoErr THEN "open" ELSE Failed(r.err, "openFailed")
    /\ lastCall' = "open"
    /\ lastRet' = FALSE
    /\ out' = << >>
    /\ sawEnd' = FALSE
    /\ pastEnd' = FALSE
    /\ clean' = (lastCall \in {"none", "close"})
    /\ UNCHANGED <<plan, files, garbage, built, prev>>

CallNext ==
    /\ Callable
    /\ LET r == Next(root, << >>)
       IN /\ root' = r.op
          /\ lastErr' = r.err
          /\ lastRet' = r.ok
          /\ phase' = IF r.err = NoErr THEN phase ELSE Failed(r.err, "nextFailed")
          /\ out' = IF r.ok THEN Append(out, r.tuple) ELSE out
          /\ sawEnd' = (sawEnd \/ (r.err = NoErr /\ ~r.ok))
    /\ pastEnd' = sawEnd
    /\ lastCall' = "next"
    /\ UNCHANGED <<plan, files, garbage, built, clean, prev>>

CallClose ==
    /\ phase \notin {"crashed", "planFailed"}
    /\ root' = Close(root)
    /\ lastCall' = "close"
    /\ lastRet' = FALSE
    /\ lastErr' = NoErr
    /\ phase' = IF Callable THEN "closed" ELSE phase
    /\ prev' = IF phase = "open"
               THEN (IF sawEnd THEN "ended" ELSE IF out = << >> THEN "unused" ELSE "partial")
               ELSE prev
    /\ clean' = FALSE
    /\ UNCHANGED <<plan, files, garbage, built, out, sawEnd, pastEnd>>

GarbageUnread == built \notin ShortReaders => phase # "crashed"

Next0 == CallOpen \/ CallNext \/ CallClose

Spec == Init /\ [][Next0]_vars

-----------------------------------------------------------------------------
(* The same caller, over the tree the translator builds from a plan *)

JScan(table, as) == [op |-> "Scan", table |-> table, as |-> as]
JSelect(predicate, input) == [op |-> "Select", input |-> input, predicate |-> predicate]
JLimit(limit, input) == [op |-> "Limit", input |-> input, limit |-> limit]
JJoin(method, condition, left, right) ==
    [op |-> "Join", left |-> left, right |-> right, condition |-> condition,
     method |-> method]
JJoinDefault(condition, left, right) ==
    [op |-> "Join", left |-> left, right |-> right, condition |-> condition]

JProject(exprs, input) == [op |-> "Project", input |-> input, exprs |-> exprs]

JCol(name) == [col |-> name]
JInt(i) == [const |-> i, type |-> "int"]
JBin(op, l, r) == [op |-> op, left |-> l, right |-> r]

JA == JScan("A.csv", "a")
JB == JScan("B.csv", "b")

JEqKeys == JBin("EQ", JCol("a.k"), JCol("b.k"))
JBigA == JBin("GT", JCol("a.k"), JInt(1))
JSmallF == JBin("LT", JCol("b.f"), JInt(1))
(* a.k / (a.k - 2) > 0: throws on a row with k = 2 *)
JBadA == JBin("GT", JBin("DIV", JCol("a.k"), JBin("SUB", JCol("a.k"), JInt(2))), JInt(0))
JBoth == JBin("LTE", JCol("a.k"), JCol("b.f"))

JJoins ==
    {JJoinDefault(JEqKeys, JA, JB)}
    \cup {JJoin(m, JEqKeys, JA, JB) : m \in {"block_nested_loop", "hash"}}

OneSidedPlans == {JSelect(p, j) : p \in {JBigA, JSmallF, JBadA}, j \in JJoins}

(* predicates that name no column, and a column of neither input *)
JConst == JBin("GT", JInt(2), JInt(1))
JUnknown == JBin("GT", JCol("c.k"), JInt(1))

(* a hash join asked for on a condition that is not an equality *)
JLtKeys == JBin("LT", JCol("a.k"), JCol("b.k"))
JHashLt == JJoin("hash", JLtKeys, JA, JB)

(* b.f / (b.k - 2) AS q: throws on a row with k = 2 *)
JQuotientB ==
    JProject(<< [as |-> "q",
                 expr |-> JBin("DIV", JCol("b.f"), JBin("SUB", JCol("b.k"), JInt(2)))] >>, JB)

(* hash joins whose keys stand in the order of the inputs, in the other   *)
(* order, both on one input, and with a key that names no column          *)
JSwappedKeys == JBin("EQ", JCol("b.k"), JCol("a.k"))
JLeftKeys == JBin("EQ", JCol("a.k"), JCol("a.k"))
JConstKey == JBin("EQ", JCol("a.k"), JInt(1))

HashKeyPlans ==
    {JJoin("hash", c, JA, JB) : c \in {JEqKeys, JSwappedKeys, JLeftKeys, JConstKey}}

Plans ==
    OneSidedPlans
    \cup {JSelect(JBoth, JJoin("hash", JEqKeys, JA, JB)), JLimit(1, JSelect(JBigA, JA)),
          [op |-> "Sort", input |-> JA]}
    \cup {JSelect(JConst, JJoinDefault(JEqKeys, JA, JB)),
          JSelect(JUnknown, JJoinDefault(JEqKeys, JA, JB)),
          JSelect(JBigA, JLimit(1, JJoinDefault(JEqKeys, JA, JB)))}
    \cup {JHashLt, JSelect(JBigA, JHashLt), JSelect(JBoth, JHashLt)}
    \cup HashKeyPlans
    \cup {JSelect(JBigA, JJoin("nested_loop", JEqKeys, JA, JB))}
    \cup {JLimit(1, JSelect(JBadA, JA)), JLimit(1, JQuotientB),
          JSelect(JConst, JLimit(1, JQuotientB)),
          JProject(<< [as |-> "n", expr |-> JCol("a.k")] >>, JSelect(JBadA, JA))}

InitPlan ==
    /\ plan \in Plans
    /\ built = parsePlan(plan).op
    /\ \E fa \in FilesA, fb \in FilesB :
          /\ (built = NoOp \/ "A.csv" \notin Tables(built)) => fa = <<Header>>
          /\ (built = NoOp \/ "B.csv" \notin Tables(built)) => fb = <<Header>>
          /\ files = [tn \in {"A.csv", "B.csv"} |-> IF tn = "A.csv" THEN fa ELSE fb]
    /\ garbage \in IF HasShortLine("A.csv", files["A.csv"]) THEN Garbage ELSE {Fault}
    /\ root = built
    /\ phase = IF parsePlan(plan).err = NoErr THEN "new" ELSE "planFailed"
    /\ lastCall = "none"
    /\ lastRet = FALSE
    /\ lastErr = parsePlan(plan).err
    /\ out = << >>
    /\ sawEnd = FALSE
    /\ pastEnd = FALSE
    /\ clean = FALSE
    /\ prev = "none"

SpecPlan == InitPlan /\ [][Next0]_vars

-----------------------------------------------------------------------------
(* The same caller, over a Project of one binary expression on two         *)
(* constants, read through a one-row table: every operator on every pair   *)
(* of operand values                                                       *)

Operands ==
    {IntV(0), IntV(1), FloatV(0, 1), FloatV(1, 1), FloatV(1, 2), StrV(<<"x">>), BoolV(TRUE)}

ExprOps == ArithOps \cup OrderOps \cup {"EQ", "NEQ", "MOD"}

ExprTrees ==
    {NewProject(ScanA, << [alias |-> "r",
                           expr |-> Binary(op, Constant(l), Constant(r))] >>) :
        op \in ExprOps, l \in Operands, r \in Operands}

InitExpr ==
    /\ plan = NoPlan
    /\ built \in ExprTrees
    /\ files = [tn \in {"A.csv", "B.csv"} |->
                  IF tn = "A.csv" THEN <<Header, <<"1", ",", "x">> >> ELSE <<Header>>]
    /\ garbage = Fault
    /\ root = built
    /\ phase = "new"
    /\ lastCall = "none"
    /\ lastRet = FALSE
    /\ lastErr = NoErr
    /\ out = << >>
    /\ sawEnd = FALSE
    /\ pastEnd = FALSE
    /\ clean = FALSE
    /\ prev = "none"

SpecExpr == InitExpr /\ [][Next0]_vars

-----------------------------------------------------------------------------
(* The same caller, over a single Scan of a table with rows whose numeric  *)
(* fields do not convert: no digits (std::invalid_argument) and too many   *)
(* digits for an int (std::out_of_range)                                   *)

TenNines == <<"9", "9", "9", "9", "9", "9", "9", "9", "9", "9">>

ScanLinesA == { <<"1", ",", "x">>, <<"q", ",", "y">>, TenNines \o <<",", "z">> }
ScanLinesB == { <<"1", ",", "5">>, <<"2", ",", "w">>, <<"2", ",", ".", "5">> }

InitScan ==
    /\ plan = NoPlan
    /\ built \in {ScanA, ScanB}
    /\ \E ra \in SeqsUpTo(ScanLinesA, MaxRowsA), rb \in SeqsUpTo(ScanLinesB, MaxRowsB) :
          /\ built = ScanB => ra = << >>
          /\ built = ScanA => rb = << >>
          /\ files = [tn \in {"A.csv", "B.csv"} |->
                        IF tn = "A.csv" THEN <<Header>> \o ra ELSE <<Header>> \o rb]
    /\ garbage = Fault
    /\ root = built
    /\ phase = "new"
    /\ lastCall = "none"
    /\ lastRet = FALSE
    /\ lastErr = NoErr
    /\ out = << >>
    /\ sawEnd = FALSE
    /\ pastEnd = FALSE
    /\ clean = FALSE
    /\ prev = "none"

SpecScan == InitScan /\ [][Next0]_vars

-----------------------------------------------------------------------------
(* main.cpp: translate the plan, open(), next() until it returns false,    *)
(* close(), return 0; an exception anywhere on the way is caught at the    *)
(* end of main, which returns 1 without another call on the tree.          *)

MainOpen == lastCall = "none" /\ CallOpen

MainNext == phase = "open" /\ ~sawEnd /\ CallNext

MainClose == phase = "open" /\ sawEnd /\ CallClose

MainStep == MainOpen \/ MainNext \/ MainClose

SpecMain == InitPlan /\ [][MainStep]_vars

(* main has returned, and the status it returned *)
Returned == phase \in {"planFailed", "openFailed", "nextFailed", "closed"}
ExitStatus == IF phase = "closed" THEN 0 ELSE 1

-----------------------------------------------------------------------------
(* A full run, as main.cpp drives it: open(), then next() until it returns *)
(* false or a call throws                                                  *)

RECURSIVE Drain(_, _)
Drain(op, acc) ==
    LET n == Next(op, << >>)
    IN IF n.err # NoErr THEN [op |-> n.op, out |-> acc, err |-> n.err]
       ELSE IF ~n.ok THEN [op |-> n.op, out |-> acc, err |-> NoErr]
       ELSE Drain(n.op, Append(acc, n.tuple))

RunAll(op) ==
    LET o == Open(op)
    IN IF o.err # NoErr THEN [op |-> o.op, out |-> << >>, err |-> o.err]
       ELSE Drain(o.op, << >>)

-----------------------------------------------------------------------------
(* What the properties below speak of *)

RECURSIVE OpenScans(_)
(* the Scans of the tree that hold an open file handle *)
OpenScans(op) ==
    CASE op.kind = "Scan" -> IF op.fileStream_.is_open THEN {op.alias_} ELSE {}
      [] op.kind \in {"Select", "Project", "Limit"} -> OpenScans(op.input_)
      [] op.kind = "HashJoin" -> OpenScans(op.probe_) \cup OpenScans(op.build_)
      [] OTHER -> OpenScans(op.left_) \cup OpenScans(op.right_)

RECURSIVE BuffersHeld(_)
(* the number of tuples held in hash tables and left blocks of the tree *)
BuffersHeld(op) ==
    CASE op.kind = "Scan" -> 0
      [] op.kind \in {"Select", "Project", "Limit"} -> BuffersHeld(op.input_)
      [] op.kind = "HashJoin" ->
           Cardinality(DOMAIN op.hashTable_) + BuffersHeld(op.probe_) + BuffersHeld(op.build_)
      [] op.kind = "BlockNestedLoopJoin" ->
           Len(op.leftBlock_) + BuffersHeld(op.left_) + BuffersHeld(op.right_)
      [] OTHER -> BuffersHeld(op.left_) + BuffersHeld(op.right_)

VariantOf(type) ==
    CASE type = "INT" -> "int" [] type = "FLOAT" -> "float"
      [] type = "STRING" -> "string" [] type = "BOOL" -> "bool"

Conforms(tuple, schema) ==
    /\ Len(tuple) = Len(getColumns(schema))
    /\ \A i \in 1..Len(tuple) : tuple[i].t = VariantOf(getColumns(schema)[i].type)

IsPrefix(p, q) == Len(p) <= Len(q) /\ \A i \in 1..Len(p) : p[i] = q[i]

SeqToBag(q) == [x \in {q[i] : i \in 1..Len(q)} |-> Cardinality({i \in 1..Len(q) : q[i] = x})]

(* a run that started from closed Scans and has only seen next() since *)
CleanRun == phase = "open" /\ clean

-----------------------------------------------------------------------------
(* C1: once next() has returned false after an open(), every later next()  *)
(* made without an intervening open() returns false as well (and throws    *)
(* nothing), for every operator tree.                                      *)
C1_EndOfStreamSticky ==
    [][(sawEnd /\ lastCall' = "next") => (~lastRet' /\ lastErr' = NoErr)]_vars

C1_Witness ==
    /\ pastEnd /\ lastCall = "next" /\ ~lastRet /\ phase = "open"
    /\ out # << >> /\ root.kind = "BlockNestedLoopJoin"

(* C2: after open() and any number of next() calls, close() then open()    *)
(* and iterating to exhaustion yields exactly the tuple sequence of a      *)
(* first run of the freshly built tree.                                    *)
C2_Reopenable ==
    (CleanRun /\ prev # "none") =>
        LET fresh == RunAll(built)
        IN /\ IsPrefix(out, fresh.out)
           /\ sawEnd => (out = fresh.out /\ fresh.err = NoErr)

C2_Witness ==
    /\ CleanRun /\ prev = "partial" /\ sawEnd /\ Len(out) >= 2
    /\ root.kind = "HashJoin"

(* C3: after close() on the root of a tree that was opened successfully,   *)
(* no Scan of the tree holds an open file handle.                          *)
C3_NoOpenFileAfterClose ==
    (lastCall = "close" /\ phase \in {"closed", "nextFailed"}) => OpenScans(root) = {}

C3_Witness ==
    /\ lastCall = "close" /\ phase = "closed" /\ prev = "partial"
    /\ root.kind = "NestedLoopJoin" /\ root.right_.kind = "HashJoin"

(* C4: after close() no hash join of the tree still holds entries in its   *)
(* hash table and no block nested-loop join still holds a left block.      *)
C4_BuffersReleasedByClose ==
    (lastCall = "close" /\ phase = "closed") => BuffersHeld(root) = 0

(* C5: close() is idempotent: on a tree that has just been closed, or was  *)
(* never opened, another close() changes nothing in the tree.              *)
C5_CloseIdempotent ==
    (lastCall = "close" \/ phase = "new") => Close(root) = root

C5_Witness ==
    /\ lastCall = "close" /\ prev = "partial" /\ phase = "closed"
    /\ root.kind = "BlockNestedLoopJoin" /\ root.leftBlock_ # << >>

(* C6: every tuple next() returns conforms to the operator's schema: same  *)
(* arity, and each value of the variant its column declares.               *)
C6_SchemaConformance ==
    (lastCall = "next" /\ lastRet) => Conforms(out[Len(out)], getSchema(root))

(* the plan is a Select over a Join whose predicate names columns of one  *)
(* join input only                                                         *)
IsOneSided(planJson) ==
    /\ planJson.op = "Select" /\ planJson.input.op = "Join"
    /\ LET predicateCols == collectColumnRefs(parseExpression(planJson.predicate).expr)
           leftCols == getSchemaColumnNames(getSchema(parsePlan(planJson.input.left).op))
           rightCols == getSchemaColumnNames(getSchema(parsePlan(planJson.input.right).op))
       IN predicateCols # {} /\ (predicateCols \subseteq leftCols
                                 \/ predicateCols \subseteq rightCols)

(* Filter(Join(left, right)), run in full: the tuples, or the failure *)
Unrewritten(planJson) ==
    LET join == parseJoin(planJson.input)
        predicate == parseExpression(planJson.predicate)
    IN IF join.err # NoErr THEN [out |-> << >>, err |-> join.err]
       ELSE LET r == RunAll(NewSelect(join.op, predicate.expr))
            IN [out |-> r.out, err |-> r.err]

RunFailed == phase \in {"planFailed", "openFailed", "nextFailed", "crashed"}

(* C7: for a Select over a Join whose predicate names columns of one join  *)
(* input only, the translated tree (Filter below the join) and the tree    *)
(* Filter(Join(left, right)) succeed or fail together and, when they       *)
(* succeed, produce the same multiset of tuples.                           *)
C7_PushdownEquivalent ==
    (IsOneSided(plan) /\ prev = "none" /\ lastCall # "close") =>
        /\ (CleanRun /\ sawEnd) =>
              /\ Unrewritten(plan).err = NoErr
              /\ SeqToBag(Unrewritten(plan).out) = SeqToBag(out)
        /\ RunFailed => Unrewritten(plan).err # NoErr

(* the three join operators over the inputs of a join, on a.k = b.k        *)
JoinLeft(op) == IF op.kind = "HashJoin" THEN op.probe_ ELSE op.left_
JoinRight(op) == IF op.kind = "HashJoin" THEN op.build_ ELSE op.right_

OtherMethods(op) ==
    {NewNestedLoopJoin(JoinLeft(op), JoinRight(op), EqKeys),
     NewHashJoin(JoinLeft(op), JoinRight(op), Col("a.k"), Col("b.k"))}
    \cup {NewBlockNestedLoopJoin(JoinLeft(op), JoinRight(op), EqKeys, b) : b \in 1..MaxBlock}

(* C8: with a pure equality condition, the nested-loop, block nested-loop  *)
(* and hash join over the same inputs produce the same multiset of tuples. *)
C8_JoinMethodsAgree ==
    (CleanRun /\ sawEnd /\ built \in EquiJoinTrees) =>
        \A alt \in OtherMethods(built) :
            LET other == RunAll(alt)
            IN other.err = NoErr /\ SeqToBag(other.out) = SeqToBag(out)

(* the pairs l || r on which the condition is true, left-major             *)
IsTrue(x) == x.err = NoErr /\ x.val.v

RECURSIVE RightMatches(_, _, _)
RightMatches(join, l, R) ==
    IF R = << >> THEN << >>
    ELSE (IF IsTrue(evalBool(join.condition_, l \o Head(R), join.outputSchema_))
          THEN << l \o Head(R) >> ELSE << >>)
         \o RightMatches(join, l, Tail(R))

RECURSIVE LeftMajor(_, _, _)
LeftMajor(join, L, R) ==
    IF L = << >> THEN << >>
    ELSE RightMatches(join, Head(L), R) \o LeftMajor(join, Tail(L), R)

(* C9: over a full run the nested-loop join emits exactly the pairs l || r *)
(* whose condition is true, each once, ordered by the position of l in the *)
(* left stream and then by the position of r in the right stream.          *)
C9_NestedLoopOrder ==
    (CleanRun /\ built.kind = "NestedLoopJoin") =>
        LET expected == LeftMajor(built, RunAll(built.left_).out, RunAll(built.right_).out)
        IN /\ IsPrefix(out, expected)
           /\ sawEnd => out = expected

C9_Witness ==
    /\ CleanRun /\ sawEnd /\ built.kind = "NestedLoopJoin" /\ Len(out) >= 3
    /\ out[1] # out[2] /\ Len(RunAll(built.left_).out) >= 2

(* the pairs p || b of equal keys, probe-major and then in build order     *)
KeyOf(expr, tuple, child) == evaluate(expr, tuple, getSchema(child))

RECURSIVE BuildMatches(_, _, _)
BuildMatches(join, p, B) ==
    IF B = << >> THEN << >>
    ELSE (IF KeyOf(join.buildKeyExpr_, Head(B), join.build_)
               = KeyOf(join.probeKeyExpr_, p, join.probe_)
          THEN << p \o Head(B) >> ELSE << >>)
         \o BuildMatches(join, p, Tail(B))

RECURSIVE ProbeMajor(_, _, _)
ProbeMajor(join, P, B) ==
    IF P = << >> THEN << >>
    ELSE BuildMatches(join, Head(P), B) \o ProbeMajor(join, Tail(P), B)

(* C10: for each probe tuple in probe order the hash join emits one output *)
(* per build tuple whose build key equals the probe key, in the order the  *)
(* build tuples were read; a probe tuple without a match emits nothing.    *)
C10_HashJoinOrder ==
    (CleanRun /\ built.kind = "HashJoin") =>
        LET expected == ProbeMajor(built, RunAll(built.probe_).out, RunAll(built.build_).out)
        IN /\ IsPrefix(out, expected)
           /\ sawEnd => out = expected

C10_Witness ==
    /\ CleanRun /\ sawEnd /\ built.kind = "HashJoin" /\ Len(out) = 2
    /\ out[1] # out[2]
    /\ Len(RunAll(built.probe_).out) = 1 /\ Len(RunAll(built.build_).out) = 2

-----------------------------------------------------------------------------
Min(a, b) == IF a < b THEN a ELSE b

C12_LimitStopsPulling ==
    [][(phase = "open" /\ root.kind = "Limit" /\ Len(out) >= root.limit_
        /\ lastCall' = "next")
       => (~lastRet' /\ lastErr' = NoErr /\ root'.input_ = root.input_)]_vars

C12_Witness ==
    /\ phase = "open" /\ lastCall = "next" /\ ~lastRet /\ root.kind = "Limit"
    /\ root.limit_ >= 1 /\ Len(out) = root.limit_
    /\ Next(root.input_, << >>).err # NoErr

(* the tuples of a stream on which the predicate is true, in stream order *)
RECURSIVE Kept(_, _, _)
Kept(predicate, schema, S) ==
    IF S = << >> THEN << >>
    ELSE (IF IsTrue(evalBool(predicate, Head(S), schema)) THEN << Head(S) >> ELSE << >>)
         \o Kept(predicate, schema, Tail(S))

(* C13: over a full run a Filter emits exactly the tuples of its child on  *)
(* which the predicate evaluates to true, unchanged and in the child's     *)
(* order; the others are skipped.                                          *)
C13_FilterSubStream ==
    (CleanRun /\ built.kind = "Select") =>
        LET expected == Kept(built.predicate_, getSchema(built.input_),
                             RunAll(built.input_).out)
        IN /\ IsPrefix(out, expected)
           /\ sawEnd => out = expected

C13_Witness ==
    /\ CleanRun /\ sawEnd /\ built.kind = "Select" /\ out # << >>
    /\ RunAll(built.input_).out[1] # out[1]

(* where the rule puts the Filter of a Select over a Join: around the     *)
(* "left" input, around the "right" input, or "above" the join             *)
FilterPlace(planJson) ==
    LET predicateCols == collectColumnRefs(parseExpression(planJson.predicate).expr)
        leftCols == getSchemaColumnNames(getSchema(parsePlan(planJson.input.left).op))
        rightCols == getSchemaColumnNames(getSchema(parsePlan(planJson.input.right).op))
    IN IF predicateCols # {} /\ predicateCols \subseteq leftCols THEN "left"
       ELSE IF predicateCols # {} /\ predicateCols \subseteq rightCols THEN "right"
       ELSE "above"

IsJoin(op) == op.kind \in {"NestedLoopJoin", "BlockNestedLoopJoin", "HashJoin"}

(* C14: for a Select whose direct input is a Join, a predicate whose       *)
(* column set is non-empty and within the left input's columns puts the    *)
(* Filter around the left input; else one within the right input's columns *)
(* puts it around the right input; otherwise (both sides, unknown columns, *)
(* no columns) the join is built as it stands and the Filter goes above    *)
(* it.  A Select over anything else is a Filter above its input.           *)
C14_PushdownRule ==
    (plan.op = "Select" /\ phase # "planFailed") =>
        LET predicate == parseExpression(plan.predicate).expr
        IN IF plan.input.op # "Join"
           THEN built = NewSelect(parsePlan(plan.input).op, predicate)
           ELSE LET left == parsePlan(plan.input.left).op
                    right == parsePlan(plan.input.right).op
                IN CASE FilterPlace(plan) = "left" ->
                          /\ IsJoin(built)
                          /\ JoinLeft(built) = NewSelect(left, predicate)
                          /\ JoinRight(built) = right
                     [] FilterPlace(plan) = "right" ->
                          /\ IsJoin(built)
                          /\ JoinLeft(built) = left
                          /\ JoinRight(built) = NewSelect(right, predicate)
                     [] OTHER -> built = NewSelect(parseJoin(plan.input).op, predicate)

C14_Witness ==
    /\ plan.op = "Select" /\ plan.input.op = "Join" /\ FilterPlace(plan) = "right"
    /\ JoinRight(built).kind = "Select" /\ lastCall = "next" /\ lastRet

(* the plan holds a Join of method "hash" whose condition is not an EQ *)
RECURSIVE HashOnNonEq(_)
HashOnNonEq(planJson) ==
    CASE planJson.op = "Join" ->
           \/ /\ JoinMethod(planJson) = "hash"
              /\ ("op" \notin DOMAIN planJson.condition \/ planJson.condition.op # "EQ")
           \/ HashOnNonEq(planJson.left)
           \/ HashOnNonEq(planJson.right)
      [] planJson.op \in {"Select", "Project", "Limit"} -> HashOnNonEq(planJson.input)
      [] OTHER -> FALSE

(* C15: a plan holding a Join of method "hash" whose condition op is not   *)
(* "EQ" does not translate: the translator fails with the hash-join plan   *)
(* error wherever the Join stands, also directly under a Select whose      *)
(* predicate names one side only.                                          *)
C15_HashNeedsEq ==
    HashOnNonEq(plan) =>
        /\ phase = "planFailed"
        /\ lastErr = "Hash join only supports equality predicates."

(* the expression a one-column Project evaluates, and its two operands *)
TheExpr == built.expressions_[1].expr
LeftOperand == TheExpr.left_.value_
RightOperand == TheExpr.right_.value_

(* the last call was a next() that evaluated the expression *)
Evaluated == lastCall = "next" /\ (lastRet \/ lastErr # NoErr)

(* C16: EQ and NEQ on operands of different variants fail (a type error)   *)
(* instead of returning a boolean; on operands of the same variant they    *)
(* return the boolean comparison of the values.                            *)
C16_EqualityNeedsSameVariant ==
    (Evaluated /\ TheExpr.op_ \in {"EQ", "NEQ"}) =>
        IF LeftOperand.t # RightOperand.t
        THEN ~lastRet /\ lastErr # NoErr
        ELSE /\ lastRet
             /\ out[Len(out)] = << BoolV((TheExpr.op_ = "EQ") <=> (LeftOperand = RightOperand)) >>

IsZero(v) == IF v.t = "int" THEN v.v = 0 ELSE v.v.n = 0

(* C17: ADD, SUB, MUL, DIV fail with the type error when an operand is     *)
(* neither int nor float; otherwise DIV by a zero right operand (int 0 or  *)
(* float 0.0) fails with divide-by-zero; otherwise the result is of the    *)
(* float variant, also for two int operands.                               *)
C17_ArithmeticOutcome ==
    (Evaluated /\ TheExpr.op_ \in ArithOps) =>
        IF ~(LeftOperand.t \in {"int", "float"} /\ RightOperand.t \in {"int", "float"})
        THEN ~lastRet /\ lastErr = "Arithmetic on non-numeric value"
        ELSE IF TheExpr.op_ = "DIV" /\ IsZero(RightOperand)
        THEN ~lastRet /\ lastErr = "Division by zero."
        ELSE lastRet /\ out[Len(out)][1].t = "float"

C17_Witness ==
    /\ Evaluated /\ TheExpr.op_ = "ADD" /\ LeftOperand = IntV(1) /\ RightOperand = IntV(1)
    /\ lastRet /\ out[Len(out)] = << FloatV(2, 1) >>

(* the type the inference rule gives an output column of a Project *)
DataTypeOf(variant) ==
    CASE variant = "int" -> "INT" [] variant = "float" -> "FLOAT"
      [] variant = "string" -> "STRING" [] variant = "bool" -> "BOOL"

InferredType(expr, inputSchema) ==
    CASE expr.e = "Binary" -> "FLOAT"
      [] expr.e = "ColumnRef" -> getColumn(inputSchema, expr.colName_).type
      [] expr.e = "Constant" -> DataTypeOf(expr.value_.t)
      [] OTHER -> "STRING"

(* C18: in a Project's output schema a column computed by a ColumnRef has  *)
(* the type of the referenced input column, by a Constant the type of the  *)
(* constant's variant, by a Binary node FLOAT, by anything else STRING.    *)
C18_ProjectTypeInference ==
    built.kind = "Project" =>
        \A i \in 1..Len(built.expressions_) :
            getColumns(getSchema(built))[i].type
                = InferredType(built.expressions_[i].expr, getSchema(built.input_))

(* the tuples of the lines all of whose fields convert, in file order *)
RECURSIVE ParsedRows(_, _)
ParsedRows(lines, cols) ==
    IF lines = << >> THEN << >>
    ELSE LET p == ParseLine(SplitFields(Head(lines)), cols, 0, << >>)
         IN (IF p.err = NoErr THEN << p.tuple >> ELSE << >>)
            \o ParsedRows(Tail(lines), cols)

(* C19: a row with an INT or FLOAT field that does not convert, whatever   *)
(* the failure, is skipped and the Scan goes on with the following row: no *)
(* next() of a Scan fails, and the Scan returns exactly the other rows in  *)
(* file order.                                                             *)
C19_ScanSkipsUnparsedRows ==
    built.kind = "Scan" =>
        /\ phase # "nextFailed"
        /\ CleanRun =>
              LET expected == ParsedRows(Tail(files[built.tablePath_]),
                                         getColumns(built.qualifiedSchema_))
              IN /\ IsPrefix(out, expected)
                 /\ sawEnd => out = expected

(* an exception of the input's next() leaves the operator's next()        *)
(* unchanged, for the operator and for every operator below it             *)
RECURSIVE Propagates(_)
Propagates(op) ==
    CASE op.kind = "Scan" -> TRUE
      [] op.kind \in {"Select", "Project", "Limit"} ->
           /\ (/\ op.kind = "Limit" => op.count_ < op.limit_
               /\ Next(op.input_, << >>).err # NoErr)
              => Next(op, << >>).err = Next(op.input_, << >>).err
           /\ Propagates(op.input_)
      [] op.kind = "HashJoin" -> Propagates(op.probe_) /\ Propagates(op.build_)
      [] OTHER -> Propagates(op.left_) /\ Propagates(op.right_)

-----------------------------------------------------------------------------
(* The same caller over the two loop joins of A.csv with B.csv under a     *)
(* condition that holds for every pair, so that each pass over the right   *)
(* child shows in the output                                               *)

AnyPair == Binary("GT", Lit(2), Lit(1))

BlockTrees ==
    {NewNestedLoopJoin(ScanA, ScanB, AnyPair)}
    \cup {NewBlockNestedLoopJoin(ScanA, ScanB, AnyPair, b) : b \in 1..MaxBlock}

InitBlock ==
    /\ plan = NoPlan
    /\ built \in BlockTrees
    /\ \E fa \in FilesA, fb \in FilesB :
          files = [tn \in {"A.csv", "B.csv"} |-> IF tn = "A.csv" THEN fa ELSE fb]
    /\ garbage = Fault
    /\ root = built
    /\ phase = "new"
    /\ lastCall = "none"
    /\ lastRet = FALSE
    /\ lastErr = NoErr
    /\ out = << >>
    /\ sawEnd = FALSE
    /\ pastEnd = FALSE
    /\ clean = FALSE
    /\ prev = "none"

SpecBlock == InitBlock /\ [][Next0]_vars

(* the last n values of a tuple *)
Suffix(t, n) == SubSeq(t, Len(t) - n + 1, Len(t))

(* the passes over the right stream R that an output shows: the outputs    *)
(* that carry the first tuple of R (the rows of R are different, and under *)
(* AnyPair every pass emits its first row)                                 *)
RightPasses(o, R) ==
    IF R = << >> THEN 0
    ELSE Cardinality({i \in 1..Len(o) : Len(o[i]) >= Len(R[1]) /\ Suffix(o[i], Len(R[1])) = R[1]})

(* the blocks of at most b tuples that n left tuples make *)
Blocks(n, b) == (n + b - 1) \div b

(* C21: over a full run of the block nested-loop join with a left stream   *)
(* of n tuples and block size b, the right child is passed over once per   *)
(* left block, ceil(n / b) times.                                          *)
C21_OnePassPerBlock ==
    (CleanRun /\ sawEnd /\ built.kind = "BlockNestedLoopJoin") =>
        LET L == RunAll(built.left_).out
            R == RunAll(built.right_).out
        IN R # << >> => RightPasses(out, R) = Blocks(Len(L), built.blockSize_)

(* the passes are one per left tuple, as in the nested-loop join *)
OnePassPerLeftTuple ==
    (CleanRun /\ sawEnd /\ built \in BlockTrees) =>
        LET L == RunAll(built.left_).out
            R == RunAll(built.right_).out
        IN R # << >> => RightPasses(out, R) = Len(L)

-----------------------------------------------------------------------------
(* The same caller over joins whose inputs have column names in common:    *)
(* two Scans under one alias                                               *)

ScanBa == NewScan("B.csv", "a")

KeyIsOne == Binary("EQ", Col("a.k"), Lit(1))

(* a.k is a column of both inputs *)
SharedTrees ==
    {NewNestedLoopJoin(ScanA, ScanBa, KeyIsOne),
     NewNestedLoopJoin(ScanBa, ScanA, KeyIsOne),
     NewSelect(NewNestedLoopJoin(ScanA, ScanBa, AnyPair), KeyIsOne),
     NewSelect(NewBlockNestedLoopJoin(ScanBa, ScanA, AnyPair, 1), KeyIsOne)}

MergeTrees ==
    SharedTrees
    \cup {NewNestedLoopJoin(ScanA, ScanA, AnyPair), NewNestedLoopJoin(ScanB, ScanBa, AnyPair)}
    \cup {NewNestedLoopJoin(NewNestedLoopJoin(ScanA, ScanB, AnyPair), ScanBa, AnyPair),
          NewHashJoin(ScanBa, NewNestedLoopJoin(ScanA, ScanB, AnyPair), Col("a.k"), Col("b.k"))}

InitMerge ==
    /\ plan = NoPlan
    /\ built \in MergeTrees
    /\ \E fa \in FilesA, fb \in FilesB :
          /\ "A.csv" \notin Tables(built) => fa = <<Header>>
          /\ "B.csv" \notin Tables(built) => fb = <<Header>>
          /\ files = [tn \in {"A.csv", "B.csv"} |-> IF tn = "A.csv" THEN fa ELSE fb]
    /\ garbage \in IF built \in SharedTrees /\ HasShortLine("A.csv", files["A.csv"])
                   THEN Garbage ELSE {Fault}
    /\ root = built
    /\ phase = "new"
    /\ lastCall = "none"
    /\ lastRet = FALSE
    /\ lastErr = NoErr
    /\ out = << >>
    /\ sawEnd = FALSE
    /\ pastEnd = FALSE
    /\ clean = FALSE
    /\ prev = "none"

SpecMerge == InitMerge /\ [][Next0]_vars

(* the join of a tree of MergeTrees *)
TheJoin(op) == IF op.kind = "Select" THEN op.input_ ELSE op

NameAndType(col) == <<col.name, col.type>>

NamesOf(schema) == {getColumns(schema)[i].name : i \in 1..Len(getColumns(schema))}

SharedNames(join) == NamesOf(getSchema(JoinLeft(join))) \cap NamesOf(getSchema(JoinRight(join)))

(* C22: the schema of a join, merge(L, R), lists the columns of L in order *)
(* and then the columns of R in order, each with its name and type, also   *)
(* when L and R have names in common; L and R are as they were built.      *)
C22_MergeConcatenates ==
    IsJoin(built) =>
        LET L == getColumns(getSchema(JoinLeft(root)))
            R == getColumns(getSchema(JoinRight(root)))
            M == getColumns(getSchema(root))
        IN /\ Len(M) = Len(L) + Len(R)
           /\ \A i \in 1..Len(L) : NameAndType(M[i]) = NameAndType(L[i])
           /\ \A j \in 1..Len(R) : NameAndType(M[Len(L) + j]) = NameAndType(R[j])
           /\ \A i \in 1..Len(M) : M[i].index = i - 1
           /\ getSchema(JoinLeft(root)) = getSchema(JoinLeft(built))
           /\ getSchema(JoinRight(root)) = getSchema(JoinRight(built))
           /\ \A s \in {JoinLeft(built), JoinRight(built)} :
                 s.kind = "Scan" => getSchema(s) = getSchema(NewScan(s.tablePath_, s.alias_))

C22_Witness ==
    /\ IsJoin(built) /\ SharedNames(built) # {} /\ lastCall = "next" /\ lastRet
    /\ NamesOf(getSchema(JoinLeft(built))) # NamesOf(getSchema(JoinRight(built)))

(* the pairs l || r in which value i of r is v, left-major *)
RECURSIVE RightHits(_, _, _, _)
RightHits(l, R, i, v) ==
    IF R = << >> THEN << >>
    ELSE (IF Len(Head(R)) >= i /\ Head(R)[i] = v THEN << l \o Head(R) >> ELSE << >>)
         \o RightHits(l, Tail(R), i, v)

RECURSIVE LeftMajorHits(_, _, _, _)
LeftMajorHits(L, R, i, v) ==
    IF L = << >> THEN << >>
    ELSE RightHits(Head(L), R, i, v) \o LeftMajorHits(Tail(L), R, i, v)

(* the name resolves to the column of the right input *)
ResolvesToRight(join, c) ==
    getColumn(getSchema(join), c).index
        = Len(getColumns(getSchema(JoinLeft(join)))) + getColumn(getSchema(JoinRight(join)), c).index

(* C29: in the schema of a join whose inputs both have a column a.k, the   *)
(* name resolves to the right input's column (index |L| plus its index in  *)
(* R), and a join condition or a Filter above the join that compares a.k   *)
(* with 1 keeps exactly the pairs whose right tuple has a.k = 1.           *)
C29_SharedNameReadsRight ==
    built \in SharedTrees =>
        LET join == TheJoin(built)
            R == getSchema(JoinRight(join))
        IN /\ \A c \in SharedNames(join) : ResolvesToRight(join, c)
           /\ (CleanRun /\ sawEnd) =>
                 out = LeftMajorHits(RunAll(JoinLeft(join)).out, RunAll(JoinRight(join)).out,
                                     getColumn(R, "a.k").index + 1, IntV(1))

(* the same, for the data files whose lines all have a field per column *)
SharedNameReadsRightOnFullLines ==
    (built \in SharedTrees /\ ~HasShortLine("A.csv", files["A.csv"])) =>
        /\ C29_SharedNameReadsRight
        /\ phase \notin {"nextFailed", "crashed"}

SharedNameSeen ==
    /\ built \in SharedTrees /\ CleanRun /\ sawEnd /\ out # << >>
    /\ \E i \in 1..Len(out) : out[i][1] # IntV(1)

(* C23: for every block size the block nested-loop join emits the matching *)
(* pairs ordered by left block in load order, then by the left tuple's     *)
(* position in the block, then by right-stream order; its output sequence  *)
(* is that of the nested-loop join over the same inputs and condition.     *)
C23_BlockJoinOrder ==
    (CleanRun /\ built.kind = "BlockNestedLoopJoin") =>
        LET expected == LeftMajor(built, RunAll(built.left_).out, RunAll(built.right_).out)
            nested == RunAll(NewNestedLoopJoin(built.left_, built.right_, built.condition_))
        IN /\ IsPrefix(out, expected)
           /\ sawEnd => (out = expected /\ nested.err = NoErr /\ out = nested.out)

C23_Witness ==
    /\ CleanRun /\ sawEnd /\ built.kind = "BlockNestedLoopJoin" /\ built.blockSize_ >= 2
    /\ Len(out) >= 2 /\ out[1][1] # out[2][1]

(* the table that holds the build tuples B, each under its build key, put  *)
(* in the order of B into an empty table                                   *)
RECURSIVE TableOf(_, _, _)
TableOf(join, B, table) ==
    IF B = << >> THEN table
    ELSE TableOf(join, Tail(B),
                 HashPut(table, KeyOf(join.buildKeyExpr_, Head(B), join.build_).val, Head(B)))

(* the state a hash join is in when open() has returned *)
HashJoinOpened ==
    (root.kind = "HashJoin" /\ lastCall = "open" /\ phase = "open") =>
        /\ OpenScans(root.build_) = {}
        /\ OpenScans(root.probe_) # {}
        /\ root.hashTable_ = TableOf(built, RunAll(built.build_).out, << >>)

(* what open() and next() of a hash join leave alone *)
HashJoinPhases ==
    /\ (root.kind = "HashJoin" /\ lastCall' = "open" /\ phase' = "openFailed")
           => root'.probe_ = root.probe_
    /\ (root.kind = "HashJoin" /\ lastCall' = "next")
           => (root'.build_ = root.build_ /\ root'.hashTable_ = root.hashTable_)

(* C24: open() of a hash join opens the build child, reads it to its end,  *)
(* and closes it before it opens the probe child (an open() that fails in  *)
(* the build has not touched the probe child); the table open() leaves is  *)
(* the build stream put into an empty table, whatever ran before; and no   *)
(* next() changes the build child or the hash table.                       *)
C24_HashJoinPhases == []HashJoinOpened /\ [][HashJoinPhases]_vars

C24_Witness ==
    /\ root.kind = "HashJoin" /\ lastCall = "next" /\ lastRet /\ prev = "partial"
    /\ Cardinality(DOMAIN root.hashTable_) >= 2

FailedBuildSeen ==
    /\ root.kind = "HashJoin" /\ lastCall = "open" /\ phase = "openFailed"
    /\ OpenScans(root.probe_) = {} /\ OpenScans(root.build_) # {}

(* a Join node of method "hash" on an EQ condition *)
IsHashEq(planJson) ==
    /\ planJson.op = "Join" /\ JoinMethod(planJson) = "hash"
    /\ "op" \in DOMAIN planJson.condition /\ planJson.condition.op = "EQ"

(* the key names columns, and only columns of the schema *)
KeyWithin(key, schema) ==
    collectColumnRefs(key) # {} /\ collectColumnRefs(key) \subseteq NamesOf(schema)

(* C25: for a hash join on EQ(x, y), the key whose columns all belong to   *)
(* the left input becomes the probe key and the one whose columns all      *)
(* belong to the right input the build key, in whichever order the plan    *)
(* gives them; when neither order fits (also when a key names no column)   *)
(* the translation fails with the plan error.  Each key of a built hash    *)
(* join names only columns of the input it is evaluated on, and its        *)
(* evaluation never fails.                                                 *)
C25_HashKeyAlignment ==
    IsHashEq(plan) =>
        LET x == parseExpression(plan.condition.left).expr
            y == parseExpression(plan.condition.right).expr
            left == parsePlan(plan.left).op
            right == parsePlan(plan.right).op
            aligned(p, b) == KeyWithin(p, getSchema(left)) /\ KeyWithin(b, getSchema(right))
        IN /\ IF aligned(x, y)
              THEN /\ phase # "planFailed"
                   /\ built.kind = "HashJoin" /\ built.probe_ = left /\ built.build_ = right
                   /\ built.probeKeyExpr_ = x /\ built.buildKeyExpr_ = y
              ELSE IF aligned(y, x)
              THEN /\ phase # "planFailed"
                   /\ built.kind = "HashJoin" /\ built.probe_ = left /\ built.build_ = right
                   /\ built.probeKeyExpr_ = y /\ built.buildKeyExpr_ = x
              ELSE /\ phase = "planFailed"
                   /\ lastErr = "Hash join predicate columns do not align with join inputs."
           /\ phase # "planFailed" =>
                 /\ KeyWithin(built.probeKeyExpr_, getSchema(built.probe_))
                 /\ KeyWithin(built.buildKeyExpr_, getSchema(built.build_))
                 /\ phase \notin {"openFailed", "nextFailed", "crashed"}
                 /\ (CleanRun /\ sawEnd) =>
                       out = ProbeMajor(NewHashJoin(left, right, Col("a.k"), Col("b.k")),
                                        RunAll(left).out, RunAll(right).out)

C25_Witness ==
    /\ plan = JJoin("hash", JSwappedKeys, JA, JB)
    /\ CleanRun /\ sawEnd /\ out # << >>
    /\ root.probeKeyExpr_ = Col("a.k")

MisalignedSeen ==
    /\ plan \in {JJoin("hash", JLeftKeys, JA, JB), JJoin("hash", JConstKey, JA, JB)}
    /\ phase = "planFailed"

PushdownKindsSeen ==
    /\ plan.op = "Select" /\ plan.input.op = "Join" /\ "method" \in DOMAIN plan.input
    /\ plan.input.method = "nested_loop" /\ lastCall = "next" /\ lastRet

-----------------------------------------------------------------------------
(* The same caller over a single Scan of a table whose lines have as many  *)
(* fields as the table has columns, fewer, more, and an empty last field   *)

FieldLinesA == { <<"1", ",", "x">>, <<"2">>, <<"1", ",", "x", ",", "7">>, <<"3", ",">> }
FieldLinesB == { <<"1", ",", "5">>, <<"7">>, <<"2", ",", ".", "5", ",", "9">>, <<"3", ",">> }

InitFields ==
    /\ plan = NoPlan
    /\ built \in {ScanA, ScanB}
    /\ \E ra \in SeqsUpTo(FieldLinesA, MaxRowsA), rb \in SeqsUpTo(FieldLinesB, MaxRowsB) :
          /\ built = ScanB => ra = << >>
          /\ built = ScanA => rb = << >>
          /\ files = [tn \in {"A.csv", "B.csv"} |->
                        IF tn = "A.csv" THEN <<Header>> \o ra ELSE <<Header>> \o rb]
    /\ garbage = Fault
    /\ root = built
    /\ phase = "new"
    /\ lastCall = "none"
    /\ lastRet = FALSE
    /\ lastErr = NoErr
    /\ out = << >>
    /\ sawEnd = FALSE
    /\ pastEnd = FALSE
    /\ clean = FALSE
    /\ prev = "none"

SpecFields == InitFields /\ [][Next0]_vars

(* the comma-separated fields of a line: the texts before, between and     *)
(* after its commas                                                        *)
RECURSIVE FieldsAcc(_, _, _)
FieldsAcc(s, cur, acc) ==
    IF s = << >> THEN Append(acc, cur)
    ELSE IF Head(s) = "," THEN FieldsAcc(Tail(s), << >>, Append(acc, cur))
    ELSE FieldsAcc(Tail(s), Append(cur, Head(s)), acc)

CommaSeparatedFields(line) == FieldsAcc(line, << >>, << >>)

(* the line the last next() of a Scan has read *)
LineRead == files[root.tablePath_][root.fileStream_.pos]

ScanReturned == root.kind = "Scan" /\ phase = "open" /\ lastCall = "next" /\ lastRet

(* the tuple is the first min(f, c) of the fields F, each parsed with the  *)
(* type of its column                                                      *)
TupleOfFields(tuple, F, cols) ==
    /\ Len(tuple) = Min(Len(F), Len(cols))
    /\ \A i \in 1..Len(tuple) :
          LET p == ParseField(F[i], cols[i].type)
          IN p.err = NoErr /\ tuple[i] = p.val

(* C27: the tuple a Scan returns for a line with f comma-separated fields  *)
(* under a schema of c columns has exactly min(f, c) values, value i       *)
(* parsed from field i with the type of column i; further fields are       *)
(* ignored and a line with fewer fields still returns a (shorter) tuple.   *)
C27_ScanFieldCount ==
    ScanReturned =>
        TupleOfFields(out[Len(out)], CommaSeparatedFields(LineRead),
                      getColumns(root.qualifiedSchema_))

(* the same with the fields counted as std::getline yields them: an empty  *)
(* text after the last comma is no field                                   *)
ScanFieldCountOfPieces ==
    ScanReturned =>
        TupleOfFields(out[Len(out)], SplitFields(LineRead), getColumns(root.qualifiedSchema_))

ExtraFieldSeen ==
    ScanReturned /\ Len(CommaSeparatedFields(LineRead)) = 3 /\ Len(out[Len(out)]) = 2

ShortLineSeen ==
    ScanReturned /\ Len(CommaSeparatedFields(LineRead)) = 1 /\ Len(out[Len(out)]) = 1

-----------------------------------------------------------------------------
(* every column the evaluation of expr reads is at an index inside tuple   *)
RECURSIVE ReadsInside(_, _, _)
ReadsInside(expr, tuple, schema) ==
    CASE expr.e = "Constant" -> TRUE
      [] expr.e = "ColumnRef" ->
           hasColumn(schema, expr.colName_) => getColumn(schema, expr.colName_).index < Len(tuple)
      [] expr.e = "Binary" ->
           /\ ReadsInside(expr.left_, tuple, schema)
           /\ evaluate(expr.left_, tuple, schema).err = NoErr
                 => ReadsInside(expr.right_, tuple, schema)
      [] expr.e = "Not" -> ReadsInside(expr.expr_, tuple, schema)

(* the tuples one next() of a Filter hands to its predicate *)
RECURSIVE SelectReadsInside(_)
SelectReadsInside(op) ==
    LET i == Next(op.input_, << >>)
    IN (i.err = NoErr /\ i.ok) =>
          /\ ReadsInside(op.predicate_, i.tuple, getSchema(op))
          /\ LET result == evalBool(op.predicate_, i.tuple, getSchema(op))
             IN (result.err = NoErr /\ ~result.val.v)
                   => SelectReadsInside([op EXCEPT !.input_ = i.op])

(* the tuple one next() of a Project hands to its expressions *)
ProjectReadsInside(op) ==
    LET i == Next(op.input_, << >>)
    IN (i.err = NoErr /\ i.ok) =>
          \A k \in 1..Len(op.expressions_) :
              ReadsInside(op.expressions_[k].expr, i.tuple, getSchema(op.input_))

NextReadsInside ==
    /\ (root.kind = "Select" /\ lastCall' = "next") => SelectReadsInside(root)
    /\ (root.kind = "Project" /\ lastCall' = "next") => ProjectReadsInside(root)

(* C28: every ColumnRef evaluation reads a position inside the tuple it is *)
(* given: in each next() of a Filter or a Project, the index the schema    *)
(* gives to a column the expression reads is less than the length of the   *)
(* tuple, for all data files, also those with short lines.                 *)
C28_ColumnReadsInside == [][NextReadsInside]_vars

(* a read outside the tuple that went unnoticed *)
SilentReadOutside ==
    /\ built = NewSelect(ScanA, IsX) /\ garbage # Fault /\ phase = "open"
    /\ lastCall = "next" /\ HasShortLine("A.csv", files["A.csv"]) /\ sawEnd

-----------------------------------------------------------------------------
(* the Scan a call on the root reaches: the root or the input of a Limit *)
HasScan == root.kind = "Scan" \/ (root.kind = "Limit" /\ root.input_.kind = "Scan")
TheScan(op) == IF op.kind = "Scan" THEN op ELSE op.input_

OpenOnOpenScan ==
    (HasScan /\ lastCall' = "open") =>
        IF TheScan(root).fileStream_.is_open
        THEN /\ TheScan(root') = TheScan(root)
             /\ phase' = "open"
             /\ Drain(root', << >>).out
                   = Drain(IF root.kind = "Limit" THEN [root EXCEPT !.count_ = 0] ELSE root,
                           << >>).out
        ELSE TheScan(root').fileStream_ = [is_open |-> TRUE, pos |-> 1]

RewindOnlyAfterClose ==
    (HasScan /\ TheScan(root').fileStream_.pos < TheScan(root).fileStream_.pos) =>
        (lastCall' = "open" /\ ~TheScan(root).fileStream_.is_open)

(* C30: open() on a Scan whose file is open changes nothing: the read      *)
(* position stays, the header is not skipped again, and the tuples that    *)
(* follow continue the pass; the position goes back to the first data row  *)
(* only in an open() of a Scan that close() has closed.                    *)
C30_OpenOnOpenScanIsNoOp == [][OpenOnOpenScan /\ RewindOnlyAfterClose]_vars

C30_Witness ==
    /\ root.kind = "Scan" /\ phase = "open" /\ lastCall = "next" /\ lastRet
    /\ root.fileStream_.pos = 3 /\ Len(out) = 1
    /\ out[1] = ParseLine(SplitFields(files["A.csv"][3]), getColumns(root.qualifiedSchema_),
                          0, << >>).tuple

====
